---------------------------- MODULE Spec2Model ----------------------------
(***************************************************************************)
(* Benchmark orchestration of AAD_CP: scripts/run_all.py (run) and         *)
(* run_p1_only.py (run).  The batch runner compiles the algorithm          *)
(* executables, discovers the corpus, runs every executable on every       *)
(* corpus file as a child process with a timeout, appends one record per   *)
(* run and persists the records to results.csv / results.json.  The report *)
(* parsers of scripts/parse_cachegrind.py (parse_cachegrind_output,        *)
(* generate_report) and scripts/create_memory_cache_graphs.py              *)
(* (parse_performance_metrics) run on their own on report files.           *)
(*                                                                         *)
(* Names of directory entries are modelled as naturals; the order of the   *)
(* naturals is the order Python's sorted() gives the corresponding paths.  *)
(* A text file is a sequence of lines, a line the sequence of its          *)
(* whitespace-separated tokens.                                            *)
(***************************************************************************)
EXTENDS Integers, Sequences, FiniteSets, TLC

VARIABLES
    runner,         \* which script runs: "run_all" or "run_p1_only"
    codes,          \* CODES_DIR: name -> [exe, src] (artifact / source present)
    dataset,        \* DATASET_DIR: root entry name -> [kind, txt, other]
    fileLines,      \* content of every corpus file: <<category, name>> -> lines
    outputs,        \* OUTPUT_DIR/<exe>/<category>/<name>: path -> content
    csv,            \* OUTPUT_DIR/results.csv (p1_results.csv): lines on disk
    json,           \* OUTPUT_DIR/results.json: dumped list or NoFile
    pc,             \* position in run()
    ci,             \* index of the compile loop over EXEC_NAMES
    compiled_exes,  \* run(): compiled_exes
    files,          \* run(): files
    results,        \* run(): results
    ei, fi,         \* indices of the loops over compiled_exes and files
    n, m,           \* run(): n, m
    child,          \* the child process of subprocess.run
    p,              \* the CompletedProcess subprocess.run returned
    e,              \* the exception the try block raised
    ck,             \* index of the next row of the ledger rewrite
    faults,         \* environment failures still to be injected
    builds,         \* history: the build checks made, in order
    runs,           \* history: the child runs made, in order
    prevFiles,      \* result of the previous discover_dataset_files call
    cg,             \* cachegrind_<algo>.out: what cg_annotate makes of each file
    parsed,         \* generate_report(): results
    gi,             \* generate_report(): index of the loop over algorithms
    report_file,    \* cache_analysis_report.txt
    perf,           \* performance_metrics.txt
    data,           \* what parse_performance_metrics() returned
    plots,          \* what the memory aggregation drew and printed
    invocation,     \* how many times run() was called on the output directory
    arg,            \* the arguments of the graph function under study
    ret             \* what that function wrote and returned

vars == <<runner, codes, dataset, fileLines, outputs, csv, json, pc, ci,
          compiled_exes, files, results, ei, fi, n, m, child, p, e, ck,
          faults, builds, runs, prevFiles, cg, parsed, gi, report_file,
          perf, data, plots, invocation, arg, ret>>

\* the state of the report parsers and of the graph functions, which run()
\* never touches
analysis ==
    <<cg, parsed, gi, report_file, perf, data, plots, invocation, arg, ret>>

-----------------------------------------------------------------------------
(* Bounds of the model *)

MaxAlgs == 2        \* algorithms of EXEC_NAMES that have an artifact or a source
MaxFiles == 2       \* corpus files of a batch run
MaxCats == 2        \* names of the entries of the dataset root
MaxNames == 2       \* names of the entries of a category directory
MaxFaults == 1      \* environment failures injected in one run
MaxCounters == 12   \* integer tokens on a PROGRAM TOTALS line
MaxReports == 2     \* cachegrind files whose content is drawn freely
MaxSegments == 2    \* Algorithm segments of performance_metrics.txt
MaxBlocks == 2      \* Test blocks of one Algorithm segment
MaxPieces == 2      \* pieces of a test name that is drawn freely
MaxLines == 3       \* lines of an edge-list file given to the edge reader
MaxDesc == 2        \* characters of the description of a graph file
MaxEdges == 2       \* edges of a graph given to write_graph
MaxVertices == 4    \* vertices of a graph given to get_graph_properties
MaxGraphEdges == 3  \* edges of a graph given to get_graph_properties

-----------------------------------------------------------------------------
(* Python values *)

None == [t |-> "None"]
Unbound == [t |-> "unbound"]          \* a local name not assigned yet
PyInt(i) == [t |-> "int", i |-> i]
PyStr(s) == [t |-> "str", s |-> s]
PyFloat(f) == [t |-> "float", f |-> f]

NoFile == <<"<no such file>">>        \* content of a path that does not exist

Max(S) == CHOOSE x \in S : \A y \in S : y <= x

Range(s) == {s[i] : i \in DOMAIN s}

RECURSIVE Concat(_)
Concat(ss) == IF ss = <<>> THEN <<>> ELSE Head(ss) \o Concat(Tail(ss))

Perms(S) ==
    {s \in [1..Cardinality(S) -> S] :
        \A i, j \in 1..Cardinality(S) : i # j => s[i] # s[j]}

-----------------------------------------------------------------------------
(* Program constants *)

EXEC_NAMES == <<"p1", "p2", "p4", "p5">>

TimeoutSeconds == 600

ExecNames == IF runner = "run_all" THEN EXEC_NAMES ELSE <<"p1">>

-----------------------------------------------------------------------------
(* Graph files: tokens, lines *)

IntTok(v) == [k |-> "int", v |-> v]            \* a token int() accepts
WordTok(w) == [k |-> "word", w |-> w]          \* "#", or a word int() rejects
CommaTok(a, b) == [k |-> "comma", a |-> a, b |-> b]   \* the token "a,b"

IsInt(tok) == tok.k = "int"

\* line.strip().startswith('#')
IsComment(line) == Len(line) > 0 /\ line[1].k = "word" /\ line[1].w = "#"

\* line.replace(',', ' ').split()
RECURSIVE ReplaceCommas(_)
ReplaceCommas(line) ==
    IF line = <<>> THEN <<>>
    ELSE LET h == Head(line)
         IN (IF h.k = "comma" THEN <<IntTok(h.a), IntTok(h.b)>> ELSE <<h>>)
            \o ReplaceCommas(Tail(line))

\* the rows gen_from_file yields for the lines it is given
RECURSIVE gen_from_file(_)
gen_from_file(lines) ==
    IF lines = <<>> THEN <<>>
    ELSE LET line == Head(lines)
             a == ReplaceCommas(line)
             rest == gen_from_file(Tail(lines))
         IN IF line = <<>> THEN rest
            ELSE IF IsComment(line) THEN rest
            ELSE IF Len(a) < 2 THEN rest
            ELSE IF ~(IsInt(a[1]) /\ IsInt(a[2])) THEN rest
            ELSE <<(<<a[1].v, a[2].v>>)>> \o rest

\* read_header_and_edges: the header is looked for on the first line only
read_header_and_edges(lines) ==
    LET parts == IF lines = <<>> THEN <<>> ELSE lines[1]
    IN IF Len(parts) >= 2 /\ IsInt(parts[1]) /\ IsInt(parts[2])
       THEN [n |-> parts[1].v, m |-> parts[2].v,
             edges |-> gen_from_file(Tail(lines))]
       ELSE LET edges == gen_from_file(lines)
            IN IF edges # <<>>
               THEN [n |-> Max({Max({uv[1], uv[2]}) : uv \in Range(edges)}) + 1,
                     m |-> Len(edges), edges |-> edges]
               ELSE [n |-> 0, m |-> 0, edges |-> edges]

\* build_graph_from_file: n and m are those of read_header_and_edges
build_graph_from_file(lines) ==
    LET r == read_header_and_edges(lines)
    IN [n |-> PyInt(r.n), m |-> PyInt(r.m)]

\* run_p1_only.run, "Read file to get n, m": the first line that is neither
\* blank nor a comment and has two tokens decides; n0, m0 are the values the
\* names n, m hold before
RECURSIVE p1_read_n_m(_, _, _)
p1_read_n_m(lines, n0, m0) ==
    IF lines = <<>> THEN [n |-> n0, m |-> m0]
    ELSE LET line == Head(lines)
         IN IF line # <<>> /\ ~IsComment(line) /\ Len(line) >= 2
            THEN IF IsInt(line[1]) /\ IsInt(line[2])
                 THEN [n |-> PyInt(line[1].v), m |-> PyInt(line[2].v)]
                 ELSE [n |-> None, m |-> None]
            ELSE p1_read_n_m(Tail(lines), n0, m0)

-----------------------------------------------------------------------------
(* Corpus discovery *)

Cats == 1..MaxCats
Names == 1..MaxNames

\* entries of the dataset root that exist
RootEntries(d) == {c \in DOMAIN d : d[c].kind # "absent"}

\* entries of the root entry c: <name>.txt for the names of txt, <name>.dat
\* for the names of other
Entries(d, c) ==
    {[name |-> k, ext |-> "txt"] : k \in d[c].txt}
        \cup {[name |-> k, ext |-> "dat"] : k \in d[c].other}

\* sorted(DATASET_DIR.iterdir())
sorted(listing) == SortSeq(listing, LAMBDA a, b : a < b)

\* category.glob('*.txt') on a directory the OS lists in the order scandir
glob_txt(scandir) == SelectSeq(scandir, LAMBDA x : x.ext = "txt")

\* sorted(category.glob('*.txt')): the file names in order
sorted_glob(scandir) ==
    LET fs == SortSeq(glob_txt(scandir), LAMBDA a, b : a.name < b.name)
    IN [j \in DOMAIN fs |-> fs[j].name]

\* discover_dataset_files with the listings in the order the OS gives them
discover_dataset_files_unsorted(d, iterdir, scandir) ==
    LET cats == SelectSeq(iterdir, LAMBDA c : d[c].kind = "dir")
    IN Concat([i \in DOMAIN cats |->
                 LET fs == glob_txt(scandir[cats[i]])
                 IN [j \in DOMAIN fs |-> <<cats[i], fs[j].name>>]])

\* discover_dataset_files; iterdir is the order in which the OS lists the
\* root, scandir[c] the order in which it lists the root entry c
discover_dataset_files(d, iterdir, scandir) ==
    LET cats == SelectSeq(sorted(iterdir), LAMBDA c : d[c].kind = "dir")
    IN Concat([i \in DOMAIN cats |->
                 LET fs == sorted_glob(scandir[cats[i]])
                 IN [j \in DOMAIN fs |-> <<cats[i], fs[j]>>]])

\* every entry a directory may hold
AllEntries ==
    {[name |-> k, ext |-> "txt"] : k \in Names} \cup {[name |-> 1, ext |-> "dat"]}

\* the listings the OS may give for a snapshot: the root in any order, and
\* every directory in any order of its entries
Listings(d) ==
    {[iterdir |-> r,
      scandir |-> [c \in DOMAIN d |->
                     SelectSeq(u, LAMBDA x : x \in Entries(d, c))]] :
        r \in Perms(RootEntries(d)), u \in Perms(AllEntries)}

-----------------------------------------------------------------------------
(* Build check *)

CompilerExitCodes == {0, 1}

\* compile_if_needed without the check for an existing artifact
compile_if_needed_always_builds(c, rc) ==
    IF ~c.src THEN [ok |-> FALSE, invoked |-> FALSE, entry |-> c]
    ELSE IF rc # 0 THEN [ok |-> FALSE, invoked |-> TRUE, entry |-> c]
    ELSE [ok |-> TRUE, invoked |-> TRUE, entry |-> [c EXCEPT !.exe = TRUE]]

\* compile_if_needed(name) / compile_p1() on the CODES_DIR entry c, when the
\* compiler (if it is run) exits with rc: the value returned, whether the
\* compiler was invoked, and the entry afterwards
compile_if_needed(c, rc) ==
    IF c.exe THEN [ok |-> TRUE, invoked |-> FALSE, entry |-> c]
    ELSE IF ~c.src THEN [ok |-> FALSE, invoked |-> FALSE, entry |-> c]
    ELSE IF rc # 0 THEN [ok |-> FALSE, invoked |-> TRUE, entry |-> c]
    ELSE [ok |-> TRUE, invoked |-> TRUE, entry |-> [c EXCEPT !.exe = TRUE]]

-----------------------------------------------------------------------------
(* Execution records, output artifacts, ledger *)

ExitCodes == {0, 1}

\* bytes a child may write to its merged stdout/stderr; "\xff" is not UTF-8
ChildOutputs == {<<"ok">>, <<"ok", "\\xff">>}

\* what a child may have written when it is killed
PartialOutputs == {<<"ok">>}

\* seconds a child may need
ChildDurations == {1, TimeoutSeconds + 1}

\* subprocess.run(..., timeout=600) raises TimeoutExpired
TimeoutExpired(dur) == dur > TimeoutSeconds

\* p.stdout.decode('utf-8', errors='replace')
decode(bytes) ==
    [i \in DOMAIN bytes |-> IF bytes[i] = "\\xff" THEN "\\ufffd" ELSE bytes[i]]

TIMEOUT_TEXT == <<"TIMEOUT", "\n">>

\* ERROR_TEXT without the message of the exception
ERROR_TEXT_no_message(exc) == <<"ERROR", "\n">>

\* 'ERROR: '+str(e)+'\n'
ERROR_TEXT(exc) == <<"ERROR: ", exc, "\n">>

\* outfile with one sub-directory for all the categories of an algorithm
outfile_one_subdir(exe, fpath) == <<exe, 1, fpath[2]>>

\* out_subdir / fpath.name, with out_subdir = OUTPUT_DIR / exe / category
outfile(exe, fpath) == <<exe, fpath[1], fpath[2]>>

OutPaths == Range(EXEC_NAMES) \X Cats \X Names

\* the dict appended to results
Record(exe, fpath, nn, mm, time, exitcode) ==
    [algorithm |-> exe, category |-> fpath[1], file |-> fpath, n |-> nn,
     m |-> mm, time |-> time, exitcode |-> exitcode,
     output |-> outfile(exe, fpath)]

\* SuccessRecord with a non-zero exit code recorded as an error
SuccessRecord_nonzero_is_error(exe, fpath, nn, mm, dur, returncode) ==
    IF returncode # 0 THEN Record(exe, fpath, nn, mm, None, PyStr("error"))
    ELSE Record(exe, fpath, nn, mm, PyFloat(dur), PyInt(returncode))

SuccessRecord(exe, fpath, nn, mm, dur, returncode) ==
    Record(exe, fpath, nn, mm, PyFloat(dur), PyInt(returncode))

\* TimeoutRecord with the elapsed time recorded
TimeoutRecord_keeps_time(exe, fpath, nn, mm) ==
    Record(exe, fpath, nn, mm, PyFloat(TimeoutSeconds), PyStr("timeout"))

TimeoutRecord(exe, fpath, nn, mm) ==
    Record(exe, fpath, nn, mm, None, PyStr("timeout"))

\* ErrorRecord without a status
ErrorRecord_no_status(exe, fpath, nn, mm) ==
    Record(exe, fpath, nn, mm, None, None)

ErrorRecord(exe, fpath, nn, mm) ==
    Record(exe, fpath, nn, mm, None, PyStr("error"))

\* evaluating the dict raises NameError when n or m was never assigned
NameError(nn, mm) == nn = Unbound \/ mm = Unbound

\* csv.DictWriter: what it writes for one value (None is written as '')
CsvField(v) ==
    CASE v.t = "None" -> ""
      [] v.t = "int" -> ToString(v.i)
      [] v.t = "float" -> ToString(v.f) \o ".0"
      [] v.t = "str" -> v.s

RelPath(fpath) == ToString(fpath[1]) \o "/" \o ToString(fpath[2]) \o ".txt"

CsvHeader ==
    <<"algorithm", "category", "file", "n", "m", "time", "exitcode", "output">>

\* writer.writerow(r)
CsvRow(r) ==
    <<r.algorithm, ToString(r.category), RelPath(r.file), CsvField(r.n),
      CsvField(r.m), CsvField(r.time), CsvField(r.exitcode),
      "outputs/" \o r.output[1] \o "/" \o RelPath(<<r.output[2], r.output[3]>>)>>

CsvTable(rs) == <<CsvHeader>> \o [i \in DOMAIN rs |-> CsvRow(rs[i])]

\* json.dump: a string between quotes
JsonString(s) == "\"" \o s \o "\""

\* json.dump: what it writes for one value (None is written as null)
JsonValue(v) ==
    CASE v.t = "None" -> "null"
      [] v.t = "int" -> ToString(v.i)
      [] v.t = "float" -> ToString(v.f) \o ".0"
      [] v.t = "str" -> JsonString(v.s)

\* json.dump: the text of an object with the keys of a record, in the order
\* the dict was built, given the text of every value
JsonFields(algorithm, category, file, nn, mm, time, exitcode, output) ==
    "{\"algorithm\": " \o algorithm \o ", \"category\": " \o category
        \o ", \"file\": " \o file \o ", \"n\": " \o nn \o ", \"m\": " \o mm
        \o ", \"time\": " \o time \o ", \"exitcode\": " \o exitcode
        \o ", \"output\": " \o output \o "}"

\* json.dump: the object written for one record
JsonObject(r) ==
    JsonFields(JsonString(r.algorithm), JsonString(ToString(r.category)),
               JsonString(RelPath(r.file)), JsonValue(r.n), JsonValue(r.m),
               JsonValue(r.time), JsonValue(r.exitcode),
               JsonString("outputs/" \o r.output[1] \o "/"
                             \o RelPath(<<r.output[2], r.output[3]>>)))

\* json.dump(results, jf, indent=2): the array written
json_dump(rs) == [i \in DOMAIN rs |-> JsonObject(rs[i])]

-----------------------------------------------------------------------------
(* Positions of run() *)

\* run() has returned, or an exception has left it
Terminal == {"done", "raised"}

InLoop == ei <= Len(compiled_exes) /\ fi <= Len(files)

exe == compiled_exes[ei]
fpath == files[fi]

\* where run() goes once both loops are over
AfterLoops == IF runner = "run_all" THEN "visualize" ELSE "csv_open"

\* Advance with the outer loop left after its first executable
Advance_first_exe_only ==
    IF fi < Len(files) THEN [ei |-> ei, fi |-> fi + 1, pc |-> "info"]
    ELSE [ei |-> Len(compiled_exes) + 1, fi |-> 1, pc |-> AfterLoops]

\* the next (exe, file) pair of "for exe in compiled_exes: for ... in files"
Advance ==
    IF fi < Len(files) THEN [ei |-> ei, fi |-> fi + 1, pc |-> "info"]
    ELSE IF ei < Len(compiled_exes) THEN [ei |-> ei + 1, fi |-> 1, pc |-> "info"]
    ELSE [ei |-> Len(compiled_exes) + 1, fi |-> 1, pc |-> AfterLoops]

\* AfterAppend without the rewrite of results.csv inside the loop
AfterAppend_no_rewrite == Advance

\* what follows results.append(...): run_all rewrites results.csv inside the
\* loop, run_p1_only goes on with the next file
AfterAppend ==
    IF runner = "run_all" THEN [ei |-> ei, fi |-> fi, pc |-> "csv_open"]
    ELSE Advance

\* what follows the with-block that writes the ledger
AfterCsv ==
    IF InLoop THEN Advance
    ELSE [ei |-> ei, fi |-> fi,
          pc |-> IF runner = "run_all" THEN "json" ELSE "done"]

-----------------------------------------------------------------------------
(* Initial states *)

Present == {[exe |-> TRUE, src |-> TRUE], [exe |-> FALSE, src |-> TRUE],
            [exe |-> FALSE, src |-> FALSE]}

\* the corpus of a batch run: the first k paths of the enumeration
\* (1,1), (2,1), .., (MaxCats,1), (1,2), ..
PathNo(c, f) == (f - 1) * MaxCats + c

Corpus(k) ==
    [c \in Cats |->
        [kind |-> "dir", txt |-> {f \in Names : PathNo(c, f) <= k}, other |-> {}]]

\* a graph with the header on its first line, and the same graph as
\* generate_dataset.write_graph writes it with a description
HeaderFirst == <<(<<IntTok(3), IntTok(2)>>), (<<IntTok(0), IntTok(1)>>),
                 (<<IntTok(1), IntTok(2)>>)>>
CommentFirst == <<(<<WordTok("#"), WordTok("x")>>)>> \o HeaderFirst

CorpusLines == [path \in Cats \X Names |->
                   IF path[1] % 2 = 1 THEN HeaderFirst ELSE CommentFirst]

\* no report has been parsed
InitAnalysis ==
    /\ cg = [a \in {"p1", "p2", "p3", "p4", "p5"} |-> [tool |-> "fails"]]
    /\ parsed = <<>> /\ gi = 1 /\ report_file = [kind |-> "absent"]
    /\ perf = [exists |-> FALSE, segments |-> <<>>]
    /\ data = None
    /\ plots = None /\ invocation = 1 /\ arg = None /\ ret = None

InitRun ==
    /\ pc = "compile" /\ ci = 1
    /\ compiled_exes = <<>> /\ files = <<>> /\ results = <<>>
    /\ ei = 1 /\ fi = 1 /\ n = Unbound /\ m = Unbound
    /\ child = "none" /\ p = None /\ e = "" /\ ck = 1
    /\ builds = <<>> /\ runs = <<>> /\ prevFiles = <<>>
    /\ InitAnalysis

Init ==
    /\ runner \in {"run_all", "run_p1_only"}
    /\ codes \in [Range(EXEC_NAMES) -> Present]
    /\ \A i \in DOMAIN EXEC_NAMES :
          (i > MaxAlgs \/ (runner = "run_p1_only" /\ i > 1))
              => codes[EXEC_NAMES[i]] = [exe |-> FALSE, src |-> FALSE]
    /\ dataset \in {Corpus(k) : k \in 0..MaxFiles}
    /\ fileLines = CorpusLines
    /\ outputs = [path \in OutPaths |-> NoFile]
    /\ csv = NoFile /\ json = NoFile
    /\ faults = MaxFaults
    /\ InitRun

-----------------------------------------------------------------------------
(* run(): build checks and discovery *)

fsIn == <<runner, dataset, fileLines, analysis>>
locals == <<n, m, child, p, e, ck>>

\* run_compile with compiled_exes.append(name) outside the if
run_compile_keeps_failed ==
    /\ pc = "compile" /\ ci <= Len(ExecNames)
    /\ \E rc \in CompilerExitCodes :
          LET name == ExecNames[ci]
              r == compile_if_needed(codes[name], rc)
          IN /\ codes' = [codes EXCEPT ![name] = r.entry]
             /\ compiled_exes' = Append(compiled_exes, name)
             /\ builds' = Append(builds, [name |-> name, ok |-> r.ok,
                                           invoked |-> r.invoked,
                                           before |-> codes[name],
                                           after |-> r.entry])
    /\ ci' = ci + 1
    /\ UNCHANGED <<fsIn, outputs, csv, json, pc, files, results, ei, fi,
                   locals, faults, runs, prevFiles>>

\* for name in EXEC_NAMES: if compile_if_needed(name): compiled_exes.append(name)
run_compile ==
    /\ pc = "compile" /\ ci <= Len(ExecNames)
    /\ \E rc \in CompilerExitCodes :
          LET name == ExecNames[ci]
              r == compile_if_needed(codes[name], rc)
          IN /\ codes' = [codes EXCEPT ![name] = r.entry]
             /\ compiled_exes' = IF r.ok THEN Append(compiled_exes, name)
                                 ELSE compiled_exes
             /\ builds' = Append(builds, [name |-> name, ok |-> r.ok,
                                           invoked |-> r.invoked,
                                           before |-> codes[name],
                                           after |-> r.entry])
    /\ ci' = ci + 1
    /\ UNCHANGED <<fsIn, outputs, csv, json, pc, files, results, ei, fi,
                   locals, faults, runs, prevFiles>>

\* subprocess.run(['g++', ...]) raises when the compiler cannot be launched
run_compile_raises ==
    /\ pc = "compile" /\ ci <= Len(ExecNames)
    /\ ~codes[ExecNames[ci]].exe /\ codes[ExecNames[ci]].src
    /\ faults > 0 /\ faults' = faults - 1
    /\ e' = "compiler not found" /\ pc' = "raised"
    /\ UNCHANGED <<fsIn, codes, outputs, csv, json, ci, compiled_exes, files,
                   results, ei, fi, n, m, child, p, ck, builds, runs,
                   prevFiles>>

\* if not compiled_exes: return
run_no_executables ==
    /\ pc = "compile" /\ ci > Len(ExecNames) /\ compiled_exes = <<>>
    /\ pc' = "done"
    /\ UNCHANGED <<fsIn, codes, outputs, csv, json, ci, compiled_exes, files,
                   results, ei, fi, locals, faults, builds, runs, prevFiles>>

\* files = discover_dataset_files(); results = []
run_discover ==
    /\ pc = "compile" /\ ci > Len(ExecNames) /\ compiled_exes # <<>>
    /\ \E l \in Listings(dataset) :
          files' = discover_dataset_files(dataset, l.iterdir, l.scandir)
    /\ prevFiles' = files
    /\ results' = <<>>
    /\ IF files' = <<>>
       THEN ei' = Len(compiled_exes) + 1 /\ fi' = 1 /\ pc' = AfterLoops
       ELSE ei' = 1 /\ fi' = 1 /\ pc' = "info"
    /\ UNCHANGED <<fsIn, codes, outputs, csv, json, ci, compiled_exes,
                   locals, faults, builds, runs>>

-----------------------------------------------------------------------------
(* run(): one (exe, file) pair *)

\* run_all: n, m, G = None, None, None; try: build_graph_from_file(fpath)
\* run_p1_only: the loop over the lines of the file
graph_info ==
    IF runner = "run_all" THEN build_graph_from_file(fileLines[fpath])
    ELSE p1_read_n_m(fileLines[fpath], n, m)

run_graph_info ==
    /\ pc = "info"
    /\ n' = graph_info.n /\ m' = graph_info.m
    /\ pc' = "mkdir"
    /\ UNCHANGED <<fsIn, codes, outputs, csv, json, ci, compiled_exes, files,
                   results, ei, fi, child, p, e, ck, faults, builds, runs,
                   prevFiles>>

\* out_subdir.mkdir(parents=True, exist_ok=True): outside every try block
run_mkdir ==
    /\ pc = "mkdir"
    /\ \/ pc' = "launch" /\ faults' = faults /\ e' = e
       \/ /\ faults > 0 /\ faults' = faults - 1
          /\ e' = "mkdir failed" /\ pc' = "raised"
    /\ UNCHANGED <<fsIn, codes, outputs, csv, json, ci, compiled_exes, files,
                   results, ei, fi, n, m, child, p, ck, builds, runs,
                   prevFiles>>

\* subprocess.run([exe_path], stdin=open(fpath,'r'), ...) starts the child
run_launch ==
    /\ pc = "launch"
    /\ child' = "running"
    /\ pc' = "wait"
    /\ UNCHANGED <<fsIn, codes, outputs, csv, json, ci, compiled_exes, files,
                   results, ei, fi, n, m, p, e, ck, faults, builds, runs,
                   prevFiles>>

\* ... or raises before a child exists (executable missing, open fails)
run_launch_raises ==
    /\ pc = "launch"
    /\ faults > 0 /\ faults' = faults - 1
    /\ e' = "launch failed"
    /\ runs' = Append(runs, [exe |-> exe, file |-> fpath, outcome |-> "launch",
                             out |-> <<>>, code |-> 0, dur |-> 0,
                             written |-> FALSE])
    /\ pc' = "except"
    /\ UNCHANGED <<fsIn, codes, outputs, csv, json, ci, compiled_exes, files,
                   results, ei, fi, n, m, child, p, ck, builds, prevFiles>>

\* the child exits within the timeout: subprocess.run returns
child_exits ==
    /\ pc = "wait"
    /\ \E dur \in ChildDurations, code \in ExitCodes, out \in ChildOutputs :
          /\ ~TimeoutExpired(dur)
          /\ p' = [returncode |-> code, stdout |-> out, dur |-> dur]
          /\ runs' = Append(runs, [exe |-> exe, file |-> fpath,
                                   outcome |-> "exited", out |-> out,
                                   code |-> code, dur |-> dur,
                                   written |-> FALSE])
    /\ child' = "exited"
    /\ pc' = "write"
    /\ UNCHANGED <<fsIn, codes, outputs, csv, json, ci, compiled_exes, files,
                   results, ei, fi, n, m, e, ck, faults, builds, prevFiles>>

\* child_times_out with the child left running when TimeoutExpired is raised
child_times_out_not_killed ==
    /\ pc = "wait"
    /\ \E dur \in ChildDurations, out \in PartialOutputs :
          /\ TimeoutExpired(dur)
          /\ runs' = Append(runs, [exe |-> exe, file |-> fpath,
                                   outcome |-> "timeout", out |-> out,
                                   code |-> 0, dur |-> dur,
                                   written |-> FALSE])
    /\ child' = "running"
    /\ pc' = "except_timeout"
    /\ UNCHANGED <<fsIn, codes, outputs, csv, json, ci, compiled_exes, files,
                   results, ei, fi, n, m, p, e, ck, faults, builds, prevFiles>>

\* the child is still running after the timeout: subprocess.run kills it,
\* waits for it and raises TimeoutExpired; out is what it had written
child_times_out ==
    /\ pc = "wait"
    /\ \E dur \in ChildDurations, out \in PartialOutputs :
          /\ TimeoutExpired(dur)
          /\ runs' = Append(runs, [exe |-> exe, file |-> fpath,
                                   outcome |-> "timeout", out |-> out,
                                   code |-> 0, dur |-> dur,
                                   written |-> FALSE])
    /\ child' = "killed"
    /\ pc' = "except_timeout"
    /\ UNCHANGED <<fsIn, codes, outputs, csv, json, ci, compiled_exes, files,
                   results, ei, fi, n, m, p, e, ck, faults, builds, prevFiles>>

\* communicate() raises something else: subprocess.run kills the child and
\* re-raises
child_communicate_raises ==
    /\ pc = "wait"
    /\ faults > 0 /\ faults' = faults - 1
    /\ \E out \in PartialOutputs :
          runs' = Append(runs, [exe |-> exe, file |-> fpath,
                                outcome |-> "communicate", out |-> out,
                                code |-> 0, dur |-> 0, written |-> FALSE])
    /\ child' = "killed"
    /\ e' = "communicate failed"
    /\ pc' = "except"
    /\ UNCHANGED <<fsIn, codes, outputs, csv, json, ci, compiled_exes, files,
                   results, ei, fi, n, m, p, ck, builds, prevFiles>>

\* results.append(rec), then on to AfterAppend
Appended(rec) ==
    /\ results' = Append(results, rec)
    /\ ei' = AfterAppend.ei /\ fi' = AfterAppend.fi /\ pc' = AfterAppend.pc

\* what a failed open(outfile,'w') / fo.write leaves at the path
FailedWrite(old) == {old, <<>>}

\* try: out = p.stdout.decode(...); write it to outfile; results.append({...})
run_write_output ==
    /\ pc = "write"
    /\ outputs' = [outputs EXCEPT ![outfile(exe, fpath)] = decode(p.stdout)]
    /\ runs' = [runs EXCEPT ![Len(runs)].written = TRUE]
    /\ IF NameError(n, m)
       THEN /\ e' = "name 'n' is not defined" /\ pc' = "except"
            /\ UNCHANGED <<results, ei, fi>>
       ELSE /\ Appended(SuccessRecord(exe, fpath, n, m, p.dur, p.returncode))
            /\ e' = e
    /\ UNCHANGED <<fsIn, codes, csv, json, ci, compiled_exes, files, n, m,
                   child, p, ck, faults, builds, prevFiles>>

\* the write of the output artifact raises inside the try block
run_write_output_raises ==
    /\ pc = "write"
    /\ faults > 0 /\ faults' = faults - 1
    /\ \E c \in FailedWrite(outputs[outfile(exe, fpath)]) :
          outputs' = [outputs EXCEPT ![outfile(exe, fpath)] = c]
    /\ e' = "write failed"
    /\ pc' = "except"
    /\ UNCHANGED <<fsIn, codes, csv, json, ci, compiled_exes, files, results,
                   ei, fi, n, m, child, p, ck, builds, runs, prevFiles>>

\* the body of a handler: write text to outfile, then results.append(rec);
\* an exception raised here leaves run()
Handler(text, rec) ==
    \/ /\ outputs' = [outputs EXCEPT ![outfile(exe, fpath)] = text]
       /\ faults' = faults
       /\ IF NameError(n, m)
          THEN /\ e' = "name 'n' is not defined" /\ pc' = "raised"
               /\ UNCHANGED <<results, ei, fi>>
          ELSE Appended(rec) /\ e' = e
    \/ /\ faults > 0 /\ faults' = faults - 1
       /\ \E c \in FailedWrite(outputs[outfile(exe, fpath)]) :
             outputs' = [outputs EXCEPT ![outfile(exe, fpath)] = c]
       /\ e' = "write failed in handler" /\ pc' = "raised"
       /\ UNCHANGED <<results, ei, fi>>

\* except subprocess.TimeoutExpired:
run_except_timeout ==
    /\ pc = "except_timeout"
    /\ Handler(TIMEOUT_TEXT, TimeoutRecord(exe, fpath, n, m))
    /\ UNCHANGED <<fsIn, codes, csv, json, ci, compiled_exes, files, n, m,
                   child, p, ck, builds, runs, prevFiles>>

\* except Exception as e:
run_except_error ==
    /\ pc = "except"
    /\ Handler(ERROR_TEXT(e), ErrorRecord(exe, fpath, n, m))
    /\ UNCHANGED <<fsIn, codes, csv, json, ci, compiled_exes, files, n, m,
                   child, p, ck, builds, runs, prevFiles>>

-----------------------------------------------------------------------------
(* run(): the ledger *)

\* with open(csv_path, 'w', newline='') as cf: opening truncates the file
csv_open ==
    /\ pc = "csv_open"
    /\ \/ csv' = <<>> /\ pc' = "csv_header" /\ faults' = faults /\ e' = e
       \/ /\ faults > 0 /\ faults' = faults - 1
          /\ e' = "open failed" /\ pc' = "raised" /\ csv' = csv
    /\ UNCHANGED <<fsIn, codes, outputs, json, ci, compiled_exes, files,
                   results, ei, fi, n, m, child, p, ck, builds, runs,
                   prevFiles>>

\* writer.writeheader()
csv_writeheader ==
    /\ pc = "csv_header"
    /\ csv' = Append(csv, CsvHeader)
    /\ ck' = 1
    /\ pc' = "csv_rows"
    /\ UNCHANGED <<fsIn, codes, outputs, json, ci, compiled_exes, files,
                   results, ei, fi, n, m, child, p, e, faults, builds, runs,
                   prevFiles>>

\* for r in results: writer.writerow(r)
csv_writerow ==
    /\ pc = "csv_rows" /\ ck <= Len(results)
    /\ csv' = Append(csv, CsvRow(results[ck]))
    /\ ck' = ck + 1
    /\ UNCHANGED <<fsIn, codes, outputs, json, pc, ci, compiled_exes, files,
                   results, ei, fi, n, m, child, p, e, faults, builds, runs,
                   prevFiles>>

\* the with-block ends: the file is closed
csv_close ==
    /\ pc = "csv_rows" /\ ck > Len(results)
    /\ ei' = AfterCsv.ei /\ fi' = AfterCsv.fi /\ pc' = AfterCsv.pc
    /\ UNCHANGED <<fsIn, codes, outputs, csv, json, ci, compiled_exes, files,
                   results, locals, faults, builds, runs, prevFiles>>

\* run_all: "Produce visualizations once at the end": every exception is
\* caught; n, m are rebound to the counts of each file in turn
run_visualize ==
    /\ pc = "visualize"
    /\ IF files = <<>> THEN UNCHANGED <<n, m>>
       ELSE LET r == build_graph_from_file(fileLines[files[Len(files)]])
            IN n' = r.n /\ m' = r.m
    /\ pc' = "csv_open"
    /\ UNCHANGED <<fsIn, codes, outputs, csv, json, ci, compiled_exes, files,
                   results, ei, fi, child, p, e, ck, faults, builds, runs,
                   prevFiles>>

\* run_json_dump writing the successful records only
run_json_dump_successes ==
    /\ pc = "json"
    /\ json' = json_dump(SelectSeq(results, LAMBDA r : r.exitcode.t = "int"))
    /\ pc' = "done"
    /\ UNCHANGED <<fsIn, codes, outputs, csv, ci, compiled_exes, files,
                   results, ei, fi, n, m, child, p, e, ck, faults, builds,
                   runs, prevFiles>>

\* run_all: the performance plot (every exception caught), then
\* json.dump(results, jf, indent=2)
run_json_dump ==
    /\ pc = "json"
    /\ \/ json' = json_dump(results) /\ pc' = "done" /\ faults' = faults
          /\ e' = e
       \/ /\ faults > 0 /\ faults' = faults - 1
          /\ e' = "open failed" /\ pc' = "raised"
          /\ json' \in {json, <<>>}
    /\ UNCHANGED <<fsIn, codes, outputs, csv, ci, compiled_exes, files,
                   results, ei, fi, n, m, child, p, ck, builds, runs,
                   prevFiles>>

-----------------------------------------------------------------------------
(* Specification *)

Next ==
    \/ run_compile \/ run_compile_raises \/ run_no_executables \/ run_discover
    \/ run_graph_info \/ run_mkdir \/ run_launch \/ run_launch_raises
    \/ child_exits \/ child_times_out \/ child_communicate_raises
    \/ run_write_output \/ run_write_output_raises
    \/ run_except_timeout \/ run_except_error
    \/ csv_open \/ csv_writeheader \/ csv_writerow \/ csv_close
    \/ run_visualize \/ run_json_dump

Spec == Init /\ [][Next]_vars

-----------------------------------------------------------------------------
(* Corpus discovery on an arbitrary snapshot of the dataset directory *)

\* a root entry: missing, a regular file, or a directory with *.txt entries
\* and other entries
RootKinds ==
    {[kind |-> k, txt |-> {}, other |-> {}] : k \in {"absent", "file"}}
        \cup {[kind |-> "dir", txt |-> T, other |-> O] :
                 T \in SUBSET Names, O \in SUBSET {1}}

InitDiscover ==
    /\ runner = "run_all"
    /\ codes = [x \in Range(EXEC_NAMES) |-> [exe |-> FALSE, src |-> FALSE]]
    /\ dataset \in [Cats -> RootKinds]
    /\ fileLines = CorpusLines
    /\ outputs = [path \in OutPaths |-> NoFile]
    /\ csv = NoFile /\ json = NoFile
    /\ faults = 0
    /\ InitRun

\* one call of discover_dataset_files() on the unchanged snapshot
discover_call ==
    /\ pc \in {"compile", "called"}
    /\ \E l \in Listings(dataset) :
          files' = discover_dataset_files(dataset, l.iterdir, l.scandir)
    /\ prevFiles' = files
    /\ pc' = IF pc = "compile" THEN "called" ELSE "called_twice"
    /\ UNCHANGED <<fsIn, codes, outputs, csv, json, ci, compiled_exes,
                   results, ei, fi, locals, faults, builds, runs>>

NextDiscover == discover_call

SpecDiscover == InitDiscover /\ [][NextDiscover]_vars

-----------------------------------------------------------------------------
(* The batch run under fair scheduling: run() is one sequential process, a *)
(* step that can be taken is taken                                         *)

SpecLive == Init /\ [][Next]_vars /\ WF_vars(Next)

-----------------------------------------------------------------------------
(* The build check called repeatedly on an arbitrary CODES_DIR *)

InitBuild ==
    /\ runner = "run_all"
    /\ codes \in [Range(EXEC_NAMES) -> Present]
    /\ dataset = Corpus(0)
    /\ fileLines = CorpusLines
    /\ outputs = [path \in OutPaths |-> NoFile]
    /\ csv = NoFile /\ json = NoFile
    /\ faults = MaxFaults
    /\ InitRun

\* one call compile_if_needed(name)
build_call ==
    /\ pc \in {"compile", "called"}
    /\ \E name \in Range(EXEC_NAMES), rc \in CompilerExitCodes :
          LET r == compile_if_needed(codes[name], rc)
          IN /\ codes' = [codes EXCEPT ![name] = r.entry]
             /\ builds' = Append(builds, [name |-> name, ok |-> r.ok,
                                           invoked |-> r.invoked,
                                           before |-> codes[name],
                                           after |-> r.entry])
    /\ pc' = IF pc = "compile" THEN "called" ELSE "called_twice"
    /\ UNCHANGED <<fsIn, outputs, csv, json, ci, compiled_exes, files,
                   results, ei, fi, locals, faults, runs, prevFiles>>

\* one call in which subprocess.run(['g++', ...]) raises
build_call_raises ==
    /\ pc \in {"compile", "called"}
    /\ \E name \in Range(EXEC_NAMES) : ~codes[name].exe /\ codes[name].src
    /\ faults > 0 /\ faults' = faults - 1
    /\ e' = "compiler not found" /\ pc' = "raised"
    /\ UNCHANGED <<fsIn, codes, outputs, csv, json, ci, compiled_exes, files,
                   results, ei, fi, n, m, child, p, ck, builds, runs,
                   prevFiles>>

NextBuild == build_call \/ build_call_raises

SpecBuild == InitBuild /\ [][NextBuild]_vars

-----------------------------------------------------------------------------
(* The batch run on corpus files with and without a header line *)

EmptyFile == <<>>
WordLine == <<(<<WordTok("a"), WordTok("b")>>)>>
CommaEdges == <<(<<CommaTok(0, 1)>>)>>

GraphFiles == {HeaderFirst, EmptyFile, WordLine, CommaEdges}

InitHeaders ==
    /\ runner \in {"run_all", "run_p1_only"}
    /\ codes \in [Range(EXEC_NAMES) -> Present]
    /\ \A x \in Range(EXEC_NAMES) :
          x # "p1" => codes[x] = [exe |-> FALSE, src |-> FALSE]
    /\ dataset = Corpus(MaxFiles)
    /\ fileLines \in [Cats \X Names -> GraphFiles]
    /\ \A path \in Cats \X Names :
          PathNo(path[1], path[2]) > MaxFiles => fileLines[path] = HeaderFirst
    /\ outputs = [path \in OutPaths |-> NoFile]
    /\ csv = NoFile /\ json = NoFile
    /\ faults = MaxFaults
    /\ InitRun

SpecHeaders == InitHeaders /\ [][Next]_vars

-----------------------------------------------------------------------------
(* Text: a token is the sequence of its characters (a run of letters is     *)
(* kept as one element), a line the sequence of its whitespace-separated    *)
(* tokens                                                                    *)

DigitChars == <<"0", "1", "2", "3", "4", "5", "6", "7", "8", "9">>
Digits == Range(DigitChars)

DigitVal(c) == CHOOSE d \in 0..9 : DigitChars[d + 1] = c

Front(s) == SubSeq(s, 1, Len(s) - 1)

\* str(v) for an int v >= 0
RECURSIVE str(_)
str(v) ==
    IF v < 10 THEN <<DigitChars[v + 1]>>
    ELSE str(v \div 10) \o <<DigitChars[(v % 10) + 1]>>

\* f"{num:,}": decimal digits in groups of three
RECURSIVE format_number(_)
format_number(num) ==
    IF num < 1000 THEN str(num)
    ELSE format_number(num \div 1000)
            \o <<",", DigitChars[((num % 1000) \div 100) + 1],
                 DigitChars[((num % 100) \div 10) + 1],
                 DigitChars[(num % 10) + 1]>>

\* token.replace(',', '')
remove_commas(token) == SelectSeq(token, LAMBDA c : c # ",")

\* token.isdigit()
isdigit(token) == token # <<>> /\ \A i \in DOMAIN token : token[i] \in Digits

\* int(token) for a token of digits
RECURSIVE py_int(_)
py_int(token) ==
    IF token = <<>> THEN 0
    ELSE py_int(Front(token)) * 10 + DigitVal(token[Len(token)])

-----------------------------------------------------------------------------
(* Profiler report parser: parse_cachegrind.py *)

\* generate_report(): algorithms
REPORT_ALGORITHMS == <<"p1", "p2", "p3", "p4", "p5">>

\* if len(numbers) >= 11
RequiredCounters == 11

\* the value of the i-th counter of a profiled run
Counter(i) == 617 * i

\* tokens that may follow an integer on the totals line
PctToken == <<"(", "1", "2", ".", "5", "%", ")">>
LoosePctToken == <<"(", "n/a", "%", ")">>
WordToken == <<"x">>

\* cg_annotate could not be run, or exited non-zero (check=True raises)
FailedFile == [tool |-> "fails"]

\* the output of cg_annotate has no PROGRAM TOTALS line
NoTotalsFile == [tool |-> "ok", marker |-> FALSE]

\* the output has a PROGRAM TOTALS line with k integer tokens, written with
\* thousands separators or without; the d-th one (if d > 0) is followed by
\* the token follower instead of a percentage, or by no token of its own
TotalsFile(k, grouped, d, follower) ==
    [tool |-> "ok", marker |-> TRUE, k |-> k, grouped |-> grouped, d |-> d,
     follower |-> follower]

Followers == {"loose", "word", "none"}

CgFiles ==
    {FailedFile, NoTotalsFile}
        \cup {TotalsFile(k, g, 0, "none") :
                 k \in (RequiredCounters - 2)..MaxCounters, g \in BOOLEAN}
        \cup UNION {{TotalsFile(k, g, d, f) :
                        d \in 1..k, g \in BOOLEAN, f \in Followers} :
                    k \in (RequiredCounters - 2)..MaxCounters}

\* the few contents of the files after the first
CgFilesFew ==
    {FailedFile, NoTotalsFile, TotalsFile(RequiredCounters, TRUE, 0, "none"),
     TotalsFile(RequiredCounters - 2, FALSE, 0, "none")}

\* "number (percentage%) number (percentage%) ... PROGRAM TOTALS"
TotalsLine(f) ==
    Concat([i \in 1..f.k |->
              <<IF f.grouped THEN format_number(Counter(i)) ELSE str(Counter(i))>>
                 \o (IF i # f.d THEN <<PctToken>>
                     ELSE IF f.follower = "loose" THEN <<LoosePctToken>>
                     ELSE IF f.follower = "word" THEN <<WordToken>>
                     ELSE <<>>)])
        \o <<(<<"PROGRAM">>), (<<"TOTALS">>)>>

\* result.stdout + result.stderr of cg_annotate, split into lines
cg_annotate(f) ==
    <<(<<(<<"Ir">>), (<<"I1mr">>)>>)>>
        \o (IF f.marker THEN <<TotalsLine(f)>> ELSE <<>>)

\* 'PROGRAM TOTALS' in line
has_marker(tokens) ==
    \E i \in 1..(Len(tokens) - 1) :
        tokens[i] = <<"PROGRAM">> /\ tokens[i + 1] = <<"TOTALS">>

\* tokens[i + 1].startswith('(') and tokens[i + 1].endswith('%)')
is_percentage(token) ==
    /\ Len(token) >= 2
    /\ token[1] = "("
    /\ token[Len(token) - 1] = "%" /\ token[Len(token)] = ")"

\* the loop "for i, token in enumerate(tokens)" from index i on: numbers
RECURSIVE numbers_from(_, _)
numbers_from(tokens, i) ==
    IF i > Len(tokens) THEN <<>>
    ELSE LET token == remove_commas(tokens[i])
         IN (IF /\ isdigit(token)
                /\ i + 1 <= Len(tokens)
                /\ is_percentage(tokens[i + 1])
             THEN <<py_int(token)>> ELSE <<>>)
            \o numbers_from(tokens, i + 1)

\* ProfilerMetrics with the data reads and the data writes exchanged
ProfilerMetrics_swapped(numbers) ==
    [Ir |-> numbers[1], I1mr |-> numbers[2], ILmr |-> numbers[3],
     Dr |-> numbers[7], D1mr |-> numbers[5], DLmr |-> numbers[6],
     Dw |-> numbers[4], D1mw |-> numbers[8], DLmw |-> numbers[9],
     Bc |-> numbers[10], Bcm |-> numbers[11]]

\* the dict parse_cachegrind_output returns
ProfilerMetrics(numbers) ==
    [Ir |-> numbers[1], I1mr |-> numbers[2], ILmr |-> numbers[3],
     Dr |-> numbers[4], D1mr |-> numbers[5], DLmr |-> numbers[6],
     Dw |-> numbers[7], D1mw |-> numbers[8], DLmw |-> numbers[9],
     Bc |-> numbers[10], Bcm |-> numbers[11]]

\* for line in output.split('\n'): the first PROGRAM TOTALS line with 11
\* numbers decides; None when the loop ends
RECURSIVE parse_lines(_)
parse_lines(lines) ==
    IF lines = <<>> THEN None
    ELSE LET numbers == numbers_from(Head(lines), 1)
         IN IF has_marker(Head(lines)) /\ Len(numbers) >= RequiredCounters
            THEN ProfilerMetrics(numbers)
            ELSE parse_lines(Tail(lines))

\* parse_cachegrind_output(filename): every exception is caught
parse_cachegrind_output(f) ==
    IF f.tool # "ok" THEN None ELSE parse_lines(cg_annotate(f))

\* report_sections with a section for every algorithm of the list
report_sections_all(res) == REPORT_ALGORITHMS

\* for name in [algo[1] for algo in algorithms]: if name not in results:
\* continue; the names that get a section of the report
report_sections(res) ==
    SelectSeq(REPORT_ALGORITHMS,
              LAMBDA a : \E i \in DOMAIN res : res[i].name = a)

\* the cachegrind files of the root directory: the first one with any
\* content, the next ones with one of the few, the others missing
CgDirs ==
    {[a \in Range(REPORT_ALGORITHMS) |->
         LET i == CHOOSE j \in DOMAIN REPORT_ALGORITHMS : REPORT_ALGORITHMS[j] = a
         IN IF i = 1 THEN first
            ELSE IF i <= MaxReports THEN next[i]
            ELSE FailedFile] :
        first \in CgFiles, next \in [2..MaxReports -> CgFilesFew]}

InitReport ==
    /\ runner = "run_all"
    /\ codes = [x \in Range(EXEC_NAMES) |-> [exe |-> FALSE, src |-> FALSE]]
    /\ dataset = Corpus(0)
    /\ fileLines = CorpusLines
    /\ outputs = [path \in OutPaths |-> NoFile]
    /\ csv = NoFile /\ json = NoFile
    /\ faults = 0
    /\ pc = "parse" /\ ci = 1
    /\ compiled_exes = <<>> /\ files = <<>> /\ results = <<>>
    /\ ei = 1 /\ fi = 1 /\ n = Unbound /\ m = Unbound
    /\ child = "none" /\ p = None /\ e = "" /\ ck = 1
    /\ builds = <<>> /\ runs = <<>> /\ prevFiles = <<>>
    /\ cg \in CgDirs
    /\ parsed = <<>> /\ gi = 1 /\ report_file = [kind |-> "absent"]
    /\ perf = [exists |-> FALSE, segments |-> <<>>]
    /\ data = None
    /\ plots = None /\ invocation = 1 /\ arg = None /\ ret = None

run_vars == <<runner, codes, dataset, fileLines, outputs, csv, json, ci,
              compiled_exes, files, results, ei, fi, n, m, child, p, e, ck,
              faults, builds, runs, prevFiles, plots, invocation,
              arg, ret>>

\* metrics = parse_cachegrind_output(filename); if metrics: results[name] = metrics
report_parse ==
    /\ pc = "parse" /\ gi <= Len(REPORT_ALGORITHMS)
    /\ LET name == REPORT_ALGORITHMS[gi]
           metrics == parse_cachegrind_output(cg[name])
       IN parsed' = IF metrics # None
                    THEN Append(parsed, [name |-> name, metrics |-> metrics])
                    ELSE parsed
    /\ gi' = gi + 1
    /\ UNCHANGED <<run_vars, pc, cg, report_file, perf, data>>

\* if not results: write the minimal report and return
report_minimal ==
    /\ pc = "parse" /\ gi > Len(REPORT_ALGORITHMS) /\ parsed = <<>>
    /\ report_file' = [kind |-> "minimal"]
    /\ pc' = "done"
    /\ UNCHANGED <<run_vars, cg, parsed, gi, perf, data>>

\* the report with a section for every parsed algorithm
report_full ==
    /\ pc = "parse" /\ gi > Len(REPORT_ALGORITHMS) /\ parsed # <<>>
    /\ report_file' = [kind |-> "full", sections |-> report_sections(parsed)]
    /\ pc' = "done"
    /\ UNCHANGED <<run_vars, cg, parsed, gi, perf, data>>

NextReport == report_parse \/ report_minimal \/ report_full

SpecReport == InitReport /\ [][NextReport]_vars

-----------------------------------------------------------------------------
(* Resource report parser: create_memory_cache_graphs.parse_performance_metrics *)

\* characters that \w does not match
NonWord == {"-", "."}

\* ids written after "Algorithm: ", as characters
AlgoIds == {<<"p", "1">>, <<"p", "2">>, <<"p", "1", "0">>}

\* names written after "Test: ", as pieces of characters
TestNames == {<<"dense", "_03">>, <<"tree", "_01">>, <<"facebook">>,
              <<"com", "-", "dblp">>}

\* the peak memory measured for the b-th test of the s-th segment
Kb(s, b) == 1024 * s + b

\* a Test block: its name, and whether the measurement has its memory line
Blocks == [name : TestNames, mem : BOOLEAN]

Segments ==
    [id : AlgoIds, blocks : UNION {[1..k -> Blocks] : k \in 0..MaxBlocks}]

\* performance_metrics.txt: missing, or a sequence of Algorithm segments
PerfFiles ==
    {[exists |-> FALSE, segments |-> <<>>]}
        \cup {[exists |-> TRUE, segments |-> ss] :
                 ss \in UNION {[1..k -> Segments] : k \in 0..MaxSegments}}

\* the lines of the Test block b of segment s
BlockText(s, b, blk) ==
    <<[k |-> "test", name |-> blk.name], [k |-> "other"]>>
        \o (IF blk.mem THEN <<[k |-> "mem", digits |-> str(Kb(s, b))]>>
            ELSE <<>>)

\* content = f.read(): "Algorithm: <id>", then for every test "Test: <name>",
\* the output of the run and "Maximum resident set size (kbytes): <digits>"
metrics_text(f) ==
    Concat([s \in DOMAIN f.segments |->
              <<[k |-> "algo", id |-> f.segments[s].id]>>
                 \o Concat([b \in DOMAIN f.segments[s].blocks |->
                              BlockText(s, b, f.segments[s].blocks[b])])])

\* r'Algorithm: (p\d)' matches at the line
IsAlgorithmMarker(line) ==
    /\ line.k = "algo" /\ Len(line.id) >= 2
    /\ line.id[1] = "p" /\ line.id[2] \in Digits

\* the longest prefix \w+ matches
RECURSIVE WordPrefix(_)
WordPrefix(name) ==
    IF name = <<>> \/ Head(name) \in NonWord THEN <<>>
    ELSE <<Head(name)>> \o WordPrefix(Tail(name))

\* r'Test: (\w+)' matches at the line
IsTestMarker(line) == line.k = "test" /\ WordPrefix(line.name) # <<>>

\* re.split(r'Algorithm: (p\d)', content): the pairs (algo, section); the
\* text before the first marker belongs to no pair
RECURSIVE split_algorithms(_)
split_algorithms(lines) ==
    IF lines = <<>> THEN <<>>
    ELSE LET before == split_algorithms(Front(lines))
             line == lines[Len(lines)]
         IN IF IsAlgorithmMarker(line)
            THEN Append(before, [algo |-> <<line.id[1], line.id[2]>>,
                                 section |-> <<>>])
            ELSE IF before = <<>> THEN <<>>
            ELSE [before EXCEPT ![Len(before)].section = Append(@, line)]

\* split_tests with every block running to the end of the section
RECURSIVE split_tests_uncut(_)
split_tests_uncut(section) ==
    IF section = <<>> THEN <<>>
    ELSE LET before == split_tests_uncut(Front(section))
             line == section[Len(section)]
         IN IF IsTestMarker(line)
            THEN Append(before, [test_name |-> WordPrefix(line.name),
                                 test_data |-> <<>>])
            ELSE [j \in DOMAIN before |->
                     [before[j] EXCEPT !.test_data = Append(@, line)]]

\* re.split(r'Test: (\w+)', section): the pairs (test_name, test_data)
RECURSIVE split_tests(_)
split_tests(section) ==
    IF section = <<>> THEN <<>>
    ELSE LET before == split_tests(Front(section))
             line == section[Len(section)]
         IN IF IsTestMarker(line)
            THEN Append(before, [test_name |-> WordPrefix(line.name),
                                 test_data |-> <<>>])
            ELSE IF before = <<>> THEN <<>>
            ELSE [before EXCEPT ![Len(before)].test_data = Append(@, line)]

\* re.search(r'Maximum resident set size \(kbytes\): (\d+)', test_data):
\* the first match, or None
RECURSIVE search_memory(_)
search_memory(test_data) ==
    IF test_data = <<>> THEN None
    ELSE IF Head(test_data).k = "mem"
         THEN [t |-> "match", group |-> Head(test_data).digits]
         ELSE search_memory(Tail(test_data))

KEYWORDS == {"road", "com", "wiki", "soc", "web"}

\* classify with the keywords looked for before the prefixes
classify_keywords_first(test_name) ==
    IF \E i \in DOMAIN test_name : test_name[i] \in KEYWORDS
    THEN PyStr("real_world")
    ELSE IF test_name[1] = "dense" THEN PyStr("dense")
    ELSE IF test_name[1] = "sparse" THEN PyStr("sparse")
    ELSE IF test_name[1] = "small" THEN PyStr("small")
    ELSE IF test_name[1] = "large" THEN PyStr("large")
    ELSE IF test_name[1] = "tree" THEN PyStr("tree_like")
    ELSE IF test_name[1] = "highly" THEN PyStr("highly_connected")
    ELSE None

\* "Determine category from test name"
classify(test_name) ==
    IF test_name[1] = "dense" THEN PyStr("dense")
    ELSE IF test_name[1] = "sparse" THEN PyStr("sparse")
    ELSE IF test_name[1] = "small" THEN PyStr("small")
    ELSE IF test_name[1] = "large" THEN PyStr("large")
    ELSE IF test_name[1] = "tree" THEN PyStr("tree_like")
    ELSE IF test_name[1] = "highly" THEN PyStr("highly_connected")
    ELSE IF \E i \in DOMAIN test_name : test_name[i] \in KEYWORDS
         THEN PyStr("real_world")
    ELSE None

\* the entries data gets for one test block
block_records(algo, blk) ==
    LET mem_match == search_memory(blk.test_data)
        category == classify(blk.test_name)
    IN IF mem_match # None /\ category # None
       THEN <<[algorithm |-> algo, test |-> blk.test_name,
               category |-> category.s,
               memory_kb |-> py_int(mem_match.group),
               memory_mb |-> <<py_int(mem_match.group), 1024>>]>>
       ELSE <<>>

\* parse_performance_metrics returning the DataFrame of the entries always
parse_performance_metrics_frame(f) ==
    LET secs == IF f.exists THEN split_algorithms(metrics_text(f)) ELSE <<>>
    IN [t |-> "DataFrame",
        rows |-> Concat([i \in DOMAIN secs |->
                           LET blks == split_tests(secs[i].section)
                           IN Concat([j \in DOMAIN blks |->
                                        block_records(secs[i].algo,
                                                      blks[j])])])]

\* parse_performance_metrics(): None when the file is missing or no entry
\* was found, else the DataFrame of the entries
parse_performance_metrics(f) ==
    IF ~f.exists THEN None
    ELSE LET secs == split_algorithms(metrics_text(f))
             entries ==
                 Concat([i \in DOMAIN secs |->
                           LET blks == split_tests(secs[i].section)
                           IN Concat([j \in DOMAIN blks |->
                                        block_records(secs[i].algo, blks[j])])])
         IN IF entries = <<>> THEN None
            ELSE [t |-> "DataFrame", rows |-> entries]

InitMemory ==
    /\ runner = "run_all"
    /\ codes = [x \in Range(EXEC_NAMES) |-> [exe |-> FALSE, src |-> FALSE]]
    /\ dataset = Corpus(0)
    /\ fileLines = CorpusLines
    /\ outputs = [path \in OutPaths |-> NoFile]
    /\ csv = NoFile /\ json = NoFile
    /\ faults = 0
    /\ pc = "memory" /\ ci = 1
    /\ compiled_exes = <<>> /\ files = <<>> /\ results = <<>>
    /\ ei = 1 /\ fi = 1 /\ n = Unbound /\ m = Unbound
    /\ child = "none" /\ p = None /\ e = "" /\ ck = 1
    /\ builds = <<>> /\ runs = <<>> /\ prevFiles = <<>>
    /\ cg = [a \in Range(REPORT_ALGORITHMS) |-> FailedFile]
    /\ parsed = <<>> /\ gi = 1 /\ report_file = [kind |-> "absent"]
    /\ perf \in PerfFiles
    /\ data = None
    /\ plots = None /\ invocation = 1 /\ arg = None /\ ret = None

\* memory_df = parse_performance_metrics()
memory_parse ==
    /\ pc = "memory"
    /\ data' = parse_performance_metrics(perf)
    /\ pc' = "done"
    /\ UNCHANGED <<run_vars, cg, parsed, gi, report_file, perf>>

NextMemory == memory_parse

SpecMemory == InitMemory /\ [][NextMemory]_vars

-----------------------------------------------------------------------------
(* The resource parser on one test block whose name is drawn freely *)

\* the pieces a test name is made of
NamePieces ==
    {"dense", "sparse", "small", "large", "tree", "highly", "x", "_03", "-"}
        \cup KEYWORDS

AnyNames == UNION {[1..k -> NamePieces] : k \in 1..MaxPieces}

InitClassify ==
    /\ runner = "run_all"
    /\ codes = [x \in Range(EXEC_NAMES) |-> [exe |-> FALSE, src |-> FALSE]]
    /\ dataset = Corpus(0)
    /\ fileLines = CorpusLines
    /\ outputs = [path \in OutPaths |-> NoFile]
    /\ csv = NoFile /\ json = NoFile
    /\ faults = 0
    /\ pc = "memory" /\ ci = 1
    /\ compiled_exes = <<>> /\ files = <<>> /\ results = <<>>
    /\ ei = 1 /\ fi = 1 /\ n = Unbound /\ m = Unbound
    /\ child = "none" /\ p = None /\ e = "" /\ ck = 1
    /\ builds = <<>> /\ runs = <<>> /\ prevFiles = <<>>
    /\ cg = [a \in Range(REPORT_ALGORITHMS) |-> FailedFile]
    /\ parsed = <<>> /\ gi = 1 /\ report_file = [kind |-> "absent"]
    /\ \E name \in AnyNames, mem \in BOOLEAN :
          perf = [exists |-> TRUE,
                  segments |-> <<[id |-> <<"p", "1">>,
                                  blocks |-> <<[name |-> name, mem |-> mem]>>]>>]
    /\ data = None
    /\ plots = None /\ invocation = 1 /\ arg = None /\ ret = None

SpecClassify == InitClassify /\ [][NextMemory]_vars

-----------------------------------------------------------------------------
(* run() called a second time on the same output directory *)

\* what CODES_DIR may hold when run() is called again: the same, or neither
\* artifact nor source of any algorithm
CodesLater == {codes, [x \in Range(EXEC_NAMES) |-> [exe |-> FALSE, src |-> FALSE]]}

\* what DATASET_DIR may hold when run() is called again: the same, or no file
DatasetLater == {dataset, Corpus(0)}

InitRerun ==
    /\ runner \in {"run_all", "run_p1_only"}
    /\ codes \in [Range(EXEC_NAMES) -> Present]
    /\ \A i \in DOMAIN EXEC_NAMES :
          i > 1 => codes[EXEC_NAMES[i]] = [exe |-> FALSE, src |-> FALSE]
    /\ dataset \in {Corpus(k) : k \in 0..MaxFiles}
    /\ fileLines = CorpusLines
    /\ outputs = [path \in OutPaths |-> NoFile]
    /\ csv = NoFile /\ json = NoFile
    /\ faults = MaxFaults
    /\ InitRun

\* run() has returned and is called again: its locals are new, the files
\* under OUTPUT_DIR are those the first call left
run_again ==
    /\ pc = "done" /\ invocation = 1
    /\ invocation' = 2
    /\ codes' \in CodesLater
    /\ dataset' \in DatasetLater
    /\ pc' = "compile" /\ ci' = 1
    /\ compiled_exes' = <<>> /\ files' = <<>> /\ results' = <<>>
    /\ ei' = 1 /\ fi' = 1 /\ n' = Unbound /\ m' = Unbound
    /\ child' = "none" /\ p' = None /\ e' = "" /\ ck' = 1
    /\ builds' = <<>> /\ runs' = <<>> /\ prevFiles' = <<>>
    /\ UNCHANGED <<runner, fileLines, outputs, csv, json, faults, cg, parsed,
                   gi, report_file, perf, data, plots, arg, ret>>

NextRerun == Next \/ run_again

SpecRerun == InitRerun /\ [][NextRerun]_vars

-----------------------------------------------------------------------------
(* Memory aggregation: create_memory_cache_graphs.main on the parsed records *)

RECURSIVE SumKb(_)
SumKb(rows) == IF rows = <<>> THEN 0 ELSE Head(rows).memory_kb + SumKb(Tail(rows))

\* cat_data['memory_mb'].mean(), as the fraction sum of kB / (1024 * count)
mean_mb(rows) == [t |-> "mean", num |-> SumKb(rows), den |-> 1024 * Len(rows)]

\* df['category'].unique(), df['algorithm'].unique()
categories(df) == {df.rows[i].category : i \in DOMAIN df.rows}
algorithms(df) == {df.rows[i].algorithm : i \in DOMAIN df.rows}

\* df[(df['category'] == cat) & (df['algorithm'] == algo)]
cat_algo_df(df, cat, algo) ==
    SelectSeq(df.rows, LAMBDA r : r.category = cat /\ r.algorithm = algo)

\* the heights of the bars of memory_overall.png: means[algo][cat]
overall_means(df) ==
    [algo \in algorithms(df) |->
        [cat \in categories(df) |->
            LET cat_data == cat_algo_df(df, cat, algo)
            IN IF Len(cat_data) > 0 THEN mean_mb(cat_data) ELSE PyInt(0)]]

\* the cells of the table print_summary_tables prints: row cat, column algo
summary_cells(df) ==
    [cat \in categories(df) |->
        [algo \in algorithms(df) |->
            LET rows == cat_algo_df(df, cat, algo)
            IN IF Len(rows) > 0 THEN mean_mb(rows) ELSE PyStr("N/A")]]

InitAggregate ==
    /\ runner = "run_all"
    /\ codes = [x \in Range(EXEC_NAMES) |-> [exe |-> FALSE, src |-> FALSE]]
    /\ dataset = Corpus(0)
    /\ fileLines = CorpusLines
    /\ outputs = [path \in OutPaths |-> NoFile]
    /\ csv = NoFile /\ json = NoFile
    /\ faults = 0
    /\ pc = "memory" /\ ci = 1
    /\ compiled_exes = <<>> /\ files = <<>> /\ results = <<>>
    /\ ei = 1 /\ fi = 1 /\ n = Unbound /\ m = Unbound
    /\ child = "none" /\ p = None /\ e = "" /\ ck = 1
    /\ builds = <<>> /\ runs = <<>> /\ prevFiles = <<>>
    /\ cg = [a \in Range(REPORT_ALGORITHMS) |-> FailedFile]
    /\ parsed = <<>> /\ gi = 1 /\ report_file = [kind |-> "absent"]
    /\ perf \in PerfFiles
    /\ data = None
    /\ plots = None /\ invocation = 1 /\ arg = None /\ ret = None

\* main(): memory_df = parse_performance_metrics(); if memory_df is not None
main_parse ==
    /\ pc = "memory"
    /\ data' = parse_performance_metrics(perf)
    /\ pc' = IF data' # None THEN "overall" ELSE "done"
    /\ UNCHANGED <<run_vars, cg, parsed, gi, report_file, perf>>

create_overall_memory_comparison ==
    /\ pc = "overall"
    /\ plots' = [overall |-> overall_means(data)]
    /\ pc' = "summary"
    /\ UNCHANGED <<runner, codes, dataset, fileLines, outputs, csv, json, ci,
                   compiled_exes, files, results, ei, fi, n, m, child, p, e,
                   ck, faults, builds, runs, prevFiles, invocation, arg, ret,
                   cg, parsed, gi, report_file, perf, data>>

print_summary_tables ==
    /\ pc = "summary"
    /\ plots' = [overall |-> plots.overall, summary |-> summary_cells(data)]
    /\ pc' = "done"
    /\ UNCHANGED <<runner, codes, dataset, fileLines, outputs, csv, json, ci,
                   compiled_exes, files, results, ei, fi, n, m, child, p, e,
                   ck, faults, builds, runs, prevFiles, invocation, arg, ret,
                   cg, parsed, gi, report_file, perf, data>>

NextAggregate ==
    main_parse \/ create_overall_memory_comparison \/ print_summary_tables

SpecAggregate == InitAggregate /\ [][NextAggregate]_vars

-----------------------------------------------------------------------------
(* The graph functions called on their own *)

\* every variable but pc, arg and ret
other_vars == <<runner, codes, dataset, fileLines, outputs, csv, json, ci,
                compiled_exes, files, results, ei, fi, n, m, child, p, e, ck,
                faults, builds, runs, prevFiles, cg, parsed, gi, report_file,
                perf, data, plots, invocation>>

\* no script is running
AtRest ==
    /\ runner = "run_all"
    /\ codes = [x \in Range(EXEC_NAMES) |-> [exe |-> FALSE, src |-> FALSE]]
    /\ dataset = Corpus(0)
    /\ fileLines = CorpusLines
    /\ outputs = [path \in OutPaths |-> NoFile]
    /\ csv = NoFile /\ json = NoFile
    /\ faults = 0 /\ ci = 1
    /\ compiled_exes = <<>> /\ files = <<>> /\ results = <<>>
    /\ ei = 1 /\ fi = 1 /\ n = Unbound /\ m = Unbound
    /\ child = "none" /\ p = None /\ e = "" /\ ck = 1
    /\ builds = <<>> /\ runs = <<>> /\ prevFiles = <<>>
    /\ cg = [a \in Range(REPORT_ALGORITHMS) |-> FailedFile]
    /\ parsed = <<>> /\ gi = 1 /\ report_file = [kind |-> "absent"]
    /\ perf = [exists |-> FALSE, segments |-> <<>>]
    /\ data = None /\ plots = None /\ invocation = 1

\* the lines an edge-list file may hold: blank, comment, two integers
\* (a header or an edge), a self-loop, "0,1", a short row, words, and a row
\* whose second token is no integer
EdgeFileLines ==
    {<<>>, <<WordTok("#"), WordTok("x")>>, <<IntTok(3), IntTok(2)>>,
     <<IntTok(0), IntTok(1)>>, <<IntTok(1), IntTok(1)>>, <<CommaTok(0, 1)>>,
     <<IntTok(5)>>, <<WordTok("a"), WordTok("b")>>, <<IntTok(0), WordTok("b")>>}

EdgeFiles == UNION {[1..k -> EdgeFileLines] : k \in 0..MaxLines}

InitEdges ==
    /\ AtRest
    /\ pc = "call"
    /\ arg \in EdgeFiles
    /\ ret = None

\* n, m, edges_gen = read_header_and_edges(path); edges = list(edges_gen)
call_read_header_and_edges ==
    /\ pc = "call"
    /\ ret' = read_header_and_edges(arg)
    /\ pc' = "done"
    /\ UNCHANGED <<other_vars, arg>>

NextEdges == call_read_header_and_edges

SpecEdges == InitEdges /\ [][NextEdges]_vars

-----------------------------------------------------------------------------
(* generate_dataset.write_graph and graph_utils.read_graph: a file is the   *)
(* sequence of its lines, a line the sequence of its characters             *)

IsSpace(c) == c \in {" ", "\n"}

RECURSIVE lstrip(_)
lstrip(s) ==
    IF s = <<>> THEN <<>>
    ELSE IF IsSpace(Head(s)) THEN lstrip(Tail(s)) ELSE s

RECURSIVE rstrip(_)
rstrip(s) ==
    IF s = <<>> THEN <<>>
    ELSE IF IsSpace(s[Len(s)]) THEN rstrip(Front(s)) ELSE s

\* s.strip()
strip(s) == rstrip(lstrip(s))

\* s.split(): the maximal runs of characters that are not whitespace
RECURSIVE split(_)
split(s) ==
    IF s = <<>> THEN <<>>
    ELSE LET before == split(Front(s))
             c == s[Len(s)]
         IN IF IsSpace(c) THEN before
            ELSE IF Len(s) = 1 \/ IsSpace(s[Len(s) - 1])
                 THEN Append(before, <<c>>)
            ELSE [before EXCEPT ![Len(before)] = Append(@, c)]

\* write_graph with the vertex count written in the place of the edge count
write_graph_count_of_vertices(vertices, edges, description) ==
    (IF description # <<>>
     THEN <<(<<"#", " ">> \o description \o <<"\n">>)>> ELSE <<>>)
       \o <<(str(vertices) \o <<" ">> \o str(vertices) \o <<"\n">>)>>
       \o [i \in DOMAIN edges |->
             str(edges[i][1]) \o <<" ">> \o str(edges[i][2]) \o <<"\n">>]

\* write_graph(filename, vertices, edges, description): the lines written
write_graph(vertices, edges, description) ==
    (IF description # <<>>
     THEN <<(<<"#", " ">> \o description \o <<"\n">>)>> ELSE <<>>)
       \o <<(str(vertices) \o <<" ">> \o str(Len(edges)) \o <<"\n">>)>>
       \o [i \in DOMAIN edges |->
             str(edges[i][1]) \o <<" ">> \o str(edges[i][2]) \o <<"\n">>]

\* "Skip comment lines and extract description": idx counts the lines read
RECURSIVE skip_comments(_, _, _)
skip_comments(lines, idx, description) ==
    IF idx < Len(lines) /\ strip(lines[idx + 1]) # <<>>
          /\ Head(strip(lines[idx + 1])) = "#"
    THEN skip_comments(lines, idx + 1,
                       description \o strip(Tail(lines[idx + 1])) \o <<" ">>)
    ELSE [idx |-> idx, description |-> description]

\* read_graph(filename): (n, edges, description), or the exception raised
read_graph(lines) ==
    LET c == skip_comments(lines, 0, <<>>)
        idx == c.idx
    IN IF idx >= Len(lines) THEN [t |-> "raise", exc |-> "IndexError"]
       ELSE LET header == split(lines[idx + 1])
            IN IF Len(header) # 2 \/ ~isdigit(header[1]) \/ ~isdigit(header[2])
               THEN [t |-> "raise", exc |-> "ValueError"]
               ELSE LET nn == py_int(header[1])
                        mm == py_int(header[2])
                        last == IF idx + 1 + mm < Len(lines) THEN idx + 1 + mm
                                ELSE Len(lines)
                        rows == [i \in 1..(last - (idx + 1)) |->
                                    split(strip(lines[idx + 1 + i]))]
                    IN IF \E i \in DOMAIN rows :
                             /\ Len(rows[i]) >= 2
                             /\ ~(isdigit(rows[i][1]) /\ isdigit(rows[i][2]))
                       THEN [t |-> "raise", exc |-> "ValueError"]
                       ELSE [t |-> "tuple", n |-> nn,
                             edges |->
                                 Concat([i \in DOMAIN rows |->
                                           IF Len(rows[i]) >= 2
                                           THEN <<(<<py_int(rows[i][1]),
                                                     py_int(rows[i][2])>>)>>
                                           ELSE <<>>]),
                             description |-> strip(c.description)]

\* the descriptions, of one line: letters and spaces
Descriptions == UNION {[1..k -> {"x", " "}] : k \in 0..MaxDesc}

\* vertex ids and vertex counts of one and of two digits
VertexIds == {0, 1, 10}
VertexCounts == {0, 3, 12}

EdgeLists == UNION {[1..k -> VertexIds \X VertexIds] : k \in 0..MaxEdges}

InitRoundTrip ==
    /\ AtRest
    /\ pc = "call"
    /\ arg \in [vertices : VertexCounts, edges : EdgeLists,
                description : Descriptions]
    /\ ret = None

\* write_graph(filename, n, edges, desc)
call_write_graph ==
    /\ pc = "call"
    /\ ret' = [file |-> write_graph(arg.vertices, arg.edges, arg.description)]
    /\ pc' = "written"
    /\ UNCHANGED <<other_vars, arg>>

\* n, edges, description = read_graph(filename)
call_read_graph ==
    /\ pc = "written"
    /\ ret' = [file |-> ret.file, value |-> read_graph(ret.file)]
    /\ pc' = "done"
    /\ UNCHANGED <<other_vars, arg>>

NextRoundTrip == call_write_graph \/ call_read_graph

SpecRoundTrip == InitRoundTrip /\ [][NextRoundTrip]_vars

-----------------------------------------------------------------------------
(* graph_utils.get_graph_properties *)

\* build_adjacency_list(n, edges): adj[v] lists the neighbours of v in the
\* order of the edges, a self-loop twice
RECURSIVE build_adjacency_list(_, _)
build_adjacency_list(nn, edges) ==
    IF edges = <<>> THEN [v \in 0..(nn - 1) |-> <<>>]
    ELSE LET adj == build_adjacency_list(nn, Front(edges))
             u == edges[Len(edges)][1]
             v == edges[Len(edges)][2]
             adj1 == [adj EXCEPT ![u] = Append(@, v)]
         IN [adj1 EXCEPT ![v] = Append(@, u)]

\* dfs(v): visited after the call, given visited before it
RECURSIVE dfs(_, _, _)
RECURSIVE dfs_for(_, _, _)
dfs(adj, v, visited) == dfs_for(adj, adj[v], visited \cup {v})

\* for u in adj[v]: if not visited[u]: dfs(u)
dfs_for(adj, us, visited) ==
    IF us = <<>> THEN visited
    ELSE dfs_for(adj, Tail(us),
                 IF Head(us) \notin visited THEN dfs(adj, Head(us), visited)
                 ELSE visited)

\* get_graph_properties(n, edges) for n > 0: the two connectivity entries
get_graph_properties(nn, edges) ==
    LET adj == build_adjacency_list(nn, edges)
        visited == dfs(adj, 0, {})
        all_visited == \A i \in 0..(nn - 1) : i \in visited
    IN [is_connected |-> all_visited,
        num_components |->
            IF ~all_visited
            THEN Cardinality({i \in 0..(nn - 1) : i \notin visited}) + 1
            ELSE 1]

\* the graphs: n > 0 vertices, edges between vertices 0..n-1
Graphs ==
    UNION {[n : {k}, edges : UNION {[1..j -> (0..(k - 1)) \X (0..(k - 1))] :
                                       j \in 0..MaxGraphEdges}] :
              k \in 1..MaxVertices}

InitProperties ==
    /\ AtRest
    /\ pc = "call"
    /\ arg \in Graphs
    /\ ret = None

\* properties = get_graph_properties(n, edges)
call_get_graph_properties ==
    /\ pc = "call"
    /\ ret' = get_graph_properties(arg.n, arg.edges)
    /\ pc' = "done"
    /\ UNCHANGED <<other_vars, arg>>

NextProperties == call_get_graph_properties

SpecProperties == InitProperties /\ [][NextProperties]_vars

-----------------------------------------------------------------------------
(* Properties *)

\* the (algorithm, file) pair of a record
Key(r) == <<r.algorithm, r.file>>

\* the *.txt entries of the sub-directories of the dataset root
CorpusFiles == {path \in Cats \X Names :
                   dataset[path[1]].kind = "dir" /\ path[2] \in dataset[path[1]].txt}

\* the algorithms whose build check returned true
Buildable == {builds[i].name : i \in {j \in DOMAIN builds : builds[j].ok}}

\* C1: Coverage.  When a batch run reaches its end it has appended exactly
\* N*K records, N the number of corpus files and K the number of algorithms
\* whose build check returned true, and no two records share the same
\* (algorithm, file) pair.
C1_Coverage ==
    pc = "done" =>
        /\ Len(results) = Cardinality(CorpusFiles) * Cardinality(Buildable)
        /\ \A i, j \in DOMAIN results : i # j => Key(results[i]) # Key(results[j])

\* a run_all batch with two algorithms and two files has reached its end
C1_Witness ==
    /\ runner = "run_all" /\ pc = "done"
    /\ Cardinality(CorpusFiles) = 2 /\ Cardinality(Buildable) = 2
    /\ Len(results) = 4

\* the child run (or failed launch) a record comes from
RunOf(r) == CHOOSE k \in DOMAIN runs :
                runs[k].exe = r.algorithm /\ runs[k].file = r.file

StatusKinds(s) ==
    {k \in {"Success", "Timeout", "Error"} :
        \/ k = "Success" /\ s.t = "int"
        \/ k = "Timeout" /\ s = PyStr("timeout")
        \/ k = "Error" /\ s = PyStr("error")}

\* C2: Status exclusivity.  Every record appended by the batch loop carries
\* exactly one status: an integer exit code, 'timeout' or 'error'; every
\* record comes from one run of the try block, and no (algorithm, file) pair
\* has two records.
C2_StatusExclusive ==
    /\ \A i \in DOMAIN results :
          Cardinality(StatusKinds(results[i].exitcode)) = 1
    /\ Len(results) <= Len(runs)
    /\ \A i, j \in DOMAIN results :
          Key(results[i]) = Key(results[j]) => i = j

\* records of all three kinds have been appended in one batch
C2_Witness ==
    \A k \in {"Success", "Timeout", "Error"} :
        \E i \in DOMAIN results : k \in StatusKinds(results[i].exitcode)

\* C3: Timeout correctness.  When the child has not exited within the
\* timeout of 600 seconds, the record of its pair has status 'timeout' and
\* no elapsed time, the child has been killed when the handler runs, and the
\* output artifact is the text 'TIMEOUT' and nothing the child wrote.
C3_TimeoutCorrect ==
    /\ \A i \in DOMAIN results :
          LET r == results[i]
              run == runs[RunOf(r)]
          IN run.dur > 600 =>
                /\ r.exitcode = PyStr("timeout")
                /\ r.time = None
                /\ outputs[r.output] = <<"TIMEOUT", "\n">>
    /\ pc = "except_timeout" => child = "killed"
    /\ child = "running" => pc = "wait"

\* a child that had written output was killed at the timeout and its pair
\* has a record
C3_Witness ==
    \E i \in DOMAIN results :
        LET run == runs[RunOf(results[i])]
        IN /\ run.dur > 600 /\ run.out # <<>>
           /\ results[i].exitcode = PyStr("timeout")
           /\ child = "killed"

\* the exceptions that leave the per-pair step of run()
StepExceptions ==
    {"mkdir failed", "write failed in handler"}

\* C4: the per-pair execution step never lets an exception escape: whatever
\* fails while preparing the output directory, launching the child,
\* communicating with it or writing the output artifact, run() is not left
\* by an exception of that step.
C4_StepNeverRaises == ~(pc = "raised" /\ e \in StepExceptions)

\* the message of the exception a failed launch / communicate raises
RaisedBy(outcome) ==
    IF outcome = "launch" THEN "launch failed" ELSE "communicate failed"

\* C5: Error state.  When launching or communicating with the child raises
\* an exception that is not a timeout, the record of the pair has status
\* 'error' and no elapsed time, and the output artifact holds the message
\* of that exception.
C5_ErrorState ==
    \A i \in DOMAIN results :
        LET r == results[i]
            run == runs[RunOf(r)]
        IN run.outcome \in {"launch", "communicate"} =>
              /\ r.exitcode = PyStr("error")
              /\ r.time = None
              /\ outputs[r.output] = <<"ERROR: ", RaisedBy(run.outcome), "\n">>

\* a failed launch has been recorded
C5_Witness ==
    \E i \in DOMAIN results :
        /\ runs[RunOf(results[i])].outcome = "launch"
        /\ results[i].exitcode = PyStr("error")
        /\ outputs[results[i].output] = <<"ERROR: ", "launch failed", "\n">>

\* UTF-8 decoding with every undecodable byte replaced by U+FFFD
Utf8Replaced(bytes) ==
    [i \in DOMAIN bytes |-> IF bytes[i] = "\\xff" THEN "\\ufffd" ELSE bytes[i]]

C7_LedgerCrashSafe ==
    (runner = "run_all" /\ Len(results) >= 2) =>
        \E k \in {Len(results) - 1, Len(results)} :
            csv = CsvTable(SubSeq(results, 1, k))

\* the positions of one execution, from reading the counts to the handlers
PairSteps ==
    {"info", "mkdir", "launch", "wait", "write", "except", "except_timeout"}

C9_DiscoverySorted ==
    pc \in {"called", "called_twice"} =>
        /\ \A i, j \in DOMAIN files :
              i < j => \/ files[i][1] < files[j][1]
                       \/ files[i][1] = files[j][1] /\ files[i][2] < files[j][2]
        /\ Range(files) = CorpusFiles
        /\ pc = "called_twice" => files = prevFiles

\* two calls on a root holding a regular file and a directory with two
\* *.txt entries and another entry
C9_Witness ==
    /\ pc = "called_twice" /\ Len(files) = 2 /\ prevFiles = files
    /\ \E c \in Cats : dataset[c].kind = "file"
    /\ \E c \in Cats : dataset[c].kind = "dir" /\ dataset[c].other # {}

\* the lines of a graph file from its first line that is not a comment
RECURSIVE SkipComments(_)
SkipComments(lines) ==
    IF lines # <<>> /\ IsComment(Head(lines)) THEN SkipComments(Tail(lines))
    ELSE lines

IsIntPair(line) == Len(line) = 2 /\ line[1].k = "int" /\ line[2].k = "int"

\* comment lines, then the line "<n> <m>", then m lines "<u> <v>"
WellFormed(lines) ==
    LET body == SkipComments(lines)
    IN /\ body # <<>>
       /\ \A i \in DOMAIN body : IsIntPair(body[i])
       /\ Len(body) = 1 + body[1][2].v

\* C10: the n and m stored in an execution record are the two integers on
\* the first non-comment line of the graph file, for every well-formed graph
\* file, also when it starts with '#' comment lines.
C10_CountsFromHeader ==
    \A i \in DOMAIN results :
        LET lines == fileLines[results[i].file]
            header == SkipComments(lines)[1]
        IN WellFormed(lines) =>
              /\ results[i].n = PyInt(header[1].v)
              /\ results[i].m = PyInt(header[2].v)

\* a graph file without a header: no line that is not a comment starts with
\* two integers
HasHeader(lines) ==
    \E i \in DOMAIN lines :
        /\ ~IsComment(lines[i]) /\ Len(lines[i]) >= 2
        /\ lines[i][1].k = "int" /\ lines[i][2].k = "int"

\* C11: for a corpus file whose header line is malformed or missing, the
\* counts recorded for the file are None (never a value inferred from the
\* edges or left over from the file before), and the file and the rest of the
\* corpus are processed: no NameError leaves run().
C11_MissingHeaderNone ==
    /\ \A i \in DOMAIN results :
          ~HasHeader(fileLines[results[i].file]) =>
              results[i].n = None /\ results[i].m = None
    /\ ~(pc = "raised" /\ e = "name 'n' is not defined")

\* C12: the build check is idempotent.  When the artifact exists and is
\* executable, compile_if_needed returns true without invoking the compiler
\* and leaves the artifact as it is, and every later call for the same
\* algorithm does the same.
C12_BuildIdempotent ==
    \A i \in DOMAIN builds :
        builds[i].before.exe =>
            /\ builds[i].ok /\ ~builds[i].invoked
            /\ builds[i].after = builds[i].before
            /\ \A j \in DOMAIN builds :
                  (j > i /\ builds[j].name = builds[i].name) =>
                      /\ builds[j].ok /\ ~builds[j].invoked
                      /\ builds[j].after = builds[i].before

\* the build check has been called twice for an algorithm whose artifact
\* existed before the first call
C12_Witness ==
    /\ pc = "called_twice" /\ Len(builds) = 2
    /\ builds[1].name = builds[2].name
    /\ builds[1].before.exe /\ builds[2].ok

\* C13: compile_if_needed never raises on a build failure: also when the
\* compiler cannot be launched at all, the call returns and run() is not
\* left by the exception of the build.
C13_BuildNeverRaises == ~(pc = "raised" /\ e = "compiler not found")

\* the algorithms whose build check returned false
Unbuildable == {builds[i].name : i \in {j \in DOMAIN builds : ~builds[j].ok}}

\* C14: an algorithm whose build check returned false is excluded for the
\* whole run: no algorithm is built twice, no child process and no record
\* exists for an algorithm whose build failed, and a run that reaches its end
\* has run every algorithm whose build succeeded on every corpus file.
C14_FailedBuildExcluded ==
    /\ \A i, j \in DOMAIN builds : builds[i].name = builds[j].name => i = j
    /\ \A k \in DOMAIN runs : runs[k].exe \notin Unbuildable
    /\ \A i \in DOMAIN results : results[i].algorithm \notin Unbuildable
    /\ pc \in PairSteps => exe \notin Unbuildable
    /\ pc = "done" =>
          \A a \in Buildable \ Unbuildable, f \in CorpusFiles :
              \E k \in DOMAIN runs : runs[k].exe = a /\ runs[k].file = f

\* the compiler failed for the first algorithm, and the second one has been
\* run on two corpus files
C14_Witness ==
    /\ pc = "done" /\ Len(builds) = Len(EXEC_NAMES)
    /\ ~builds[1].ok /\ builds[1].invoked /\ builds[2].ok
    /\ Len(runs) = 2 /\ Len(results) = 2

\* C15: at most one child process is in flight at any time.  A child runs
\* only while subprocess.run waits for it, and when the next child is about
\* to be launched the previous one has exited or been killed and every
\* earlier pair has its record.
C15_OneChildInFlight ==
    /\ child = "running" => pc = "wait"
    /\ pc \in {"launch", "wait"} =>
          /\ Len(results) = Len(runs)
          /\ \A k \in DOMAIN runs :
                \E i \in DOMAIN results :
                    Key(results[i]) = <<runs[k].exe, runs[k].file>>

\* a child is running after the child of the previous pair was killed at the
\* timeout
C15_Witness ==
    /\ child = "running" /\ pc = "wait" /\ Len(runs) >= 1
    /\ runs[Len(runs)].outcome = "timeout"

\* C16: a timeout is process-scoped and the batch always finishes: given
\* that every child exits or is killed at the timeout, once a child has been
\* killed at the timeout the batch eventually reaches its end with every
\* (buildable algorithm, file) pair processed.
C16_BatchFinishes ==
    (pc = "except_timeout") ~>
        (/\ pc = "done"
         /\ \A a \in Buildable, f \in CorpusFiles :
               \E i \in DOMAIN results : Key(results[i]) = <<a, f>>)

\* the files generate_report() has parsed so far
ParsedFiles == {REPORT_ALGORITHMS[i] : i \in 1..(gi - 1)}

\* what parse_cachegrind_output returned for the algorithm a
Returned(a) ==
    IF \E i \in DOMAIN parsed : parsed[i].name = a
    THEN parsed[CHOOSE i \in DOMAIN parsed : parsed[i].name = a].metrics
    ELSE None

\* the integer tokens of the totals line of f that are followed by a
\* parenthesized token ending in '%)'
Qualifying(f) ==
    IF f.d > 0 /\ f.follower \in {"word", "none"} THEN f.k - 1 ELSE f.k

\* C17: profiler parser field mapping.  For a PROGRAM TOTALS line holding 11
\* integers (with or without thousands separators), each followed by a
\* percentage token, the metrics returned have Ir, I1mr, ILmr, Dr, D1mr,
\* DLmr, Dw, D1mw, DLmw, Bc, Bcm equal to the 11 integers in that order; for
\* a line with only 9 qualifying integers the parser returns None.
C17_FieldMapping ==
    \A a \in ParsedFiles :
        LET f == cg[a]
        IN (f.tool = "ok" /\ f.marker) =>
              /\ (f.k = 11 /\ f.d = 0) =>
                    Returned(a) =
                        [Ir |-> Counter(1), I1mr |-> Counter(2),
                         ILmr |-> Counter(3), Dr |-> Counter(4),
                         D1mr |-> Counter(5), DLmr |-> Counter(6),
                         Dw |-> Counter(7), D1mw |-> Counter(8),
                         DLmw |-> Counter(9), Bc |-> Counter(10),
                         Bcm |-> Counter(11)]
              /\ Qualifying(f) = 9 => Returned(a) = None

\* a totals line with 11 integers written with thousands separators has
\* been parsed into metrics, and so has one without separators
C17_Witness ==
    /\ gi > 2 /\ Len(parsed) = 2
    /\ cg["p1"].tool = "ok" /\ cg["p1"].marker
    /\ cg["p1"].k = 11 /\ cg["p1"].d = 0 /\ ~cg["p1"].grouped
    /\ cg["p2"] = TotalsFile(11, TRUE, 0, "none")
    /\ parsed[2].metrics.Bcm = 6787

\* the integer tokens of the totals line of f whose next token has the form
\* (<digits>.<digits>%): the counters in order, without the d-th
StrictNumbers(f) ==
    LET idx == SelectSeq([i \in 1..f.k |-> i], LAMBDA i : i # f.d)
    IN [j \in DOMAIN idx |-> Counter(idx[j])]

\* C18: the parser counts an integer token if and only if the token after
\* it matches (<digits>.<digits>%): the metrics are made of the first 11
\* integers so followed, and the result is None when there are fewer.
C18_StrictPercentage ==
    \A a \in ParsedFiles :
        LET f == cg[a]
        IN (f.tool = "ok" /\ f.marker) =>
              IF Len(StrictNumbers(f)) >= 11
              THEN /\ Returned(a) # None
                   /\ Returned(a).Ir = StrictNumbers(f)[1]
                   /\ Returned(a).Bcm = StrictNumbers(f)[11]
              ELSE Returned(a) = None

\* C19: the profiler parser returns None, without raising, when the report
\* has no PROGRAM TOTALS line, when that line has fewer than 11 qualifying
\* integers, or when the annotate tool fails; generate_report then gives a
\* section to exactly the algorithms whose parse returned metrics, and when
\* there is none it writes the minimal report and returns.
C19_NoneNeverRaises ==
    /\ pc # "raised"
    /\ \A a \in ParsedFiles :
          LET f == cg[a]
          IN (\/ f.tool # "ok"
              \/ ~f.marker
              \/ Qualifying(f) < 11) => Returned(a) = None
    /\ pc = "done" =>
          IF \A a \in Range(REPORT_ALGORITHMS) : Returned(a) = None
          THEN report_file = [kind |-> "minimal"]
          ELSE /\ report_file.kind = "full"
               /\ Range(report_file.sections) =
                     {a \in Range(REPORT_ALGORITHMS) : Returned(a) # None}
               /\ Len(report_file.sections) =
                     Cardinality(Range(report_file.sections))

\* the annotate tool failed for the first file, the second one was parsed,
\* and the full report has one section
C19_Witness ==
    /\ pc = "done" /\ cg["p1"].tool = "fails"
    /\ report_file.kind = "full" /\ report_file.sections = <<"p2">>

\* a report whose algorithm ids are 'p' and one digit and whose test names
\* are made of word characters
PlainReport(f) ==
    \A s \in DOMAIN f.segments :
        /\ Len(f.segments[s].id) = 2
        /\ \A b \in DOMAIN f.segments[s].blocks :
              \A i \in DOMAIN f.segments[s].blocks[b].name :
                  f.segments[s].blocks[b].name[i] \notin {"-", "."}

\* the records the test blocks of a report stand for: one for every block
\* that has a memory line and a classifiable name, in the order of the file
MemoryRecords(f) ==
    Concat([s \in DOMAIN f.segments |->
              Concat([b \in DOMAIN f.segments[s].blocks |->
                        LET blk == f.segments[s].blocks[b]
                        IN IF blk.mem /\ classify(blk.name) # None
                           THEN <<[algorithm |-> f.segments[s].id,
                                   test |-> blk.name,
                                   category |-> classify(blk.name).s,
                                   memory_kb |-> Kb(s, b)]>>
                           ELSE <<>>])])

CATEGORIES ==
    {"dense", "sparse", "small", "large", "tree_like", "highly_connected",
     "real_world"}

\* the classification rules in priority order: a name prefix, or the set of
\* keywords one of which the name contains
RULES ==
    <<[prefix |-> "dense", cat |-> "dense"],
      [prefix |-> "sparse", cat |-> "sparse"],
      [prefix |-> "small", cat |-> "small"],
      [prefix |-> "large", cat |-> "large"],
      [prefix |-> "tree", cat |-> "tree_like"],
      [prefix |-> "highly", cat |-> "highly_connected"],
      [prefix |-> "", cat |-> "real_world"]>>

RuleMatches(r, name) ==
    IF r.prefix # "" THEN name[1] = r.prefix
    ELSE \E i \in DOMAIN name :
            name[i] \in {"road", "com", "wiki", "soc", "web"}

\* the category of the first rule that matches the name, "" when none does
FirstRule(name) ==
    LET hits == {k \in DOMAIN RULES : RuleMatches(RULES[k], name)}
    IN IF hits = {} THEN ""
       ELSE RULES[CHOOSE k \in hits : \A j \in hits : k <= j].cat

\* the name r'Test: (\w+)' takes from the name written in the file
RECURSIVE Captured(_)
Captured(name) ==
    IF name = <<>> \/ Head(name) = "-" \/ Head(name) = "." THEN <<>>
    ELSE <<Head(name)>> \o Captured(Tail(name))

\* C21: every record of the resource parser has a category of the fixed
\* set, the one of the first rule its test name matches, in the order prefix
\* dense, sparse, small, large, tree, highly, then the keywords; a test whose
\* name matches no rule yields no record and no error.
C21_FirstMatchingRule ==
    /\ pc # "raised"
    /\ pc = "done" =>
          LET blk == perf.segments[1].blocks[1]
              name == Captured(blk.name)
          IN IF blk.mem /\ name # <<>> /\ FirstRule(name) # ""
             THEN /\ data # None /\ Len(data.rows) = 1
                  /\ data.rows[1].category = FirstRule(name)
                  /\ data.rows[1].category \in CATEGORIES
             ELSE data = None

\* a test whose name starts with dense and contains the keyword com has
\* been put in the category dense
C21_Witness ==
    /\ pc = "done" /\ perf.segments[1].blocks[1].name = <<"dense", "com">>
    /\ data # None /\ data.rows[1].category = "dense"


\* the report has an entry the parser can use: a test block with a memory
\* line whose name some classification rule matches
Usable(f) ==
    /\ f.exists
    /\ \E s \in DOMAIN f.segments : \E b \in DOMAIN f.segments[s].blocks :
          LET blk == f.segments[s].blocks[b]
          IN /\ blk.mem /\ Captured(blk.name) # <<>>
             /\ FirstRule(Captured(blk.name)) # ""

\* C22 as stated: when the report file is absent, or has no usable entry,
\* the resource parser yields an empty sequence of records.
C22_EmptySequence ==
    (pc = "done" /\ ~Usable(perf)) =>
        data = [t |-> "DataFrame", rows |-> <<>>]

\* C22: when the report file is absent, or has no usable entry, the
\* resource parser does not fail and returns None, no sequence of records at
\* all; it returns a sequence only when the sequence is not empty.
C22_NoData ==
    /\ pc # "raised"
    /\ pc = "done" =>
          /\ ~Usable(perf) => data = None
          /\ data # None => data.rows # <<>>

\* the parser has returned None for a report that exists and has a measured
\* test, whose name no rule matches
C22_Witness ==
    /\ pc = "done" /\ data = None /\ perf.exists
    /\ \E s \in DOMAIN perf.segments : \E b \in DOMAIN perf.segments[s].blocks :
          /\ perf.segments[s].blocks[b].mem
          /\ perf.segments[s].blocks[b].name = <<"facebook">>

\* C23: the sequence the resource parser returns holds at most one record
\* per (algorithm, test) pair, whatever the report text.
C23_OneRecordPerPair ==
    (pc = "done" /\ data # None) =>
        \A i, j \in DOMAIN data.rows :
            (/\ data.rows[i].algorithm = data.rows[j].algorithm
             /\ data.rows[i].test = data.rows[j].test) => i = j


\* the k-th executed pair, algorithm-major then corpus order
PairAt(k) ==
    <<compiled_exes[((k - 1) \div Len(files)) + 1],
      files[((k - 1) % Len(files)) + 1]>>

\* C24: when run_all.run reaches its end, results.json and results.csv hold
\* the same records in the same order, both the complete in-memory sequence,
\* which has one entry per executed pair, algorithm-major then corpus order.
C24_LedgersAgree ==
    (runner = "run_all" /\ pc = "done" /\ compiled_exes # <<>>) =>
        /\ Len(results) = Len(compiled_exes) * Len(files)
        /\ \A k \in DOMAIN results : Key(results[k]) = PairAt(k)
        /\ csv = CsvTable(results)
        /\ json = json_dump(results)
        /\ Len(json) = Len(csv) - 1
        /\ \A k \in DOMAIN json :
              json[k] = JsonFields(JsonString(csv[k + 1][1]),
                                   JsonString(csv[k + 1][2]),
                                   JsonString(csv[k + 1][3]),
                                   JsonValue(results[k].n),
                                   JsonValue(results[k].m),
                                   JsonValue(results[k].time),
                                   JsonValue(results[k].exitcode),
                                   JsonString(csv[k + 1][8]))

\* run_all has ended with four records, with a success, a timeout and an
\* error among them, in both files
C24_Witness ==
    /\ runner = "run_all" /\ pc = "done" /\ Len(json) = 4 /\ Len(csv) = 5
    /\ \E i, j, k \in DOMAIN json :
          /\ results[i].exitcode = PyInt(0) /\ csv[i + 1][7] = "0"
          /\ results[j].exitcode = PyStr("timeout") /\ csv[j + 1][7] = "timeout"
          /\ results[k].exitcode = PyStr("error") /\ csv[k + 1][7] = "error"
          /\ json[i] = JsonObject(results[i])
          /\ json[j] = JsonObject(results[j])
          /\ json[k] = JsonObject(results[k])


\* the rows a ledger file holds after its header, none when it is missing
LedgerRows == IF csv = NoFile THEN <<>> ELSE Tail(csv)

\* C25: after any second invocation of run on the same output directory
\* has returned, the on-disk ledger holds only records of that second
\* invocation, also when it found no buildable algorithm or an empty corpus.
C25_LedgerOverwritten ==
    (invocation = 2 /\ pc = "done") =>
        LedgerRows = [i \in DOMAIN results |-> CsvRow(results[i])]


\* the only artifact a step may write is the one of the pair being executed
WritesOwnArtifact ==
    \A path \in OutPaths :
        outputs'[path] # outputs[path] =>
            /\ path[1] = exe /\ path[2] = fpath[1] /\ path[3] = fpath[2]

\* C26: the output artifact of an execution is at <output root>/<algorithm>/
\* <category>/<file name>; within one run two distinct (algorithm, file)
\* pairs never share an output path, and no artifact is overwritten by the
\* execution of another pair.
C26_OutputPaths ==
    /\ [](\A i \in DOMAIN results :
             /\ results[i].output[1] = results[i].algorithm
             /\ results[i].output[2] = results[i].file[1]
             /\ results[i].output[3] = results[i].file[2]
             /\ \A j \in DOMAIN results :
                   Key(results[i]) # Key(results[j])
                       => results[i].output # results[j].output)
    /\ [][WritesOwnArtifact]_vars

\* two files of the same name in two categories have been run by one
\* algorithm, and both artifacts are on disk
C26_Witness ==
    \E i, j \in DOMAIN results :
        /\ results[i].algorithm = results[j].algorithm
        /\ results[i].file[1] # results[j].file[1]
        /\ results[i].file[2] = results[j].file[2]
        /\ outputs[results[i].output] # NoFile
        /\ outputs[results[j].output] # NoFile


\* the (algorithm, category) pairs of the aggregation that have no record
Unmeasured ==
    {pair \in algorithms(data) \X categories(data) :
        \A i \in DOMAIN data.rows :
            <<data.rows[i].algorithm, data.rows[i].category>> # pair}

\* C27: memory aggregation treats a missing (algorithm, category)
\* measurement as not measured: for every algorithm and category with no
\* memory record, neither the overall comparison nor the summary table uses
\* 0 as that pair's mean.
C27_MissingNotZero ==
    (pc = "done" /\ data # None) =>
        \A pair \in Unmeasured :
            /\ plots.overall[pair[1]][pair[2]] # PyInt(0)
            /\ plots.summary[pair[2]][pair[1]] # PyInt(0)


\* the line has at least two tokens, commas being separators, and the first
\* two parse as integers
IsEdgeRow(line) ==
    LET a == ReplaceCommas(line)
    IN Len(a) >= 2 /\ a[1].k = "int" /\ a[2].k = "int"

\* the header: the first line that is neither blank nor a comment, when it
\* starts with two integers; 0 when the file has no header
HeaderLine(lines) ==
    LET content == {i \in DOMAIN lines : lines[i] # <<>> /\ ~IsComment(lines[i])}
    IN IF content = {} THEN 0
       ELSE LET h == CHOOSE i \in content : \A j \in content : i <= j
            IN IF Len(lines[h]) >= 2 /\ lines[h][1].k = "int"
                  /\ lines[h][2].k = "int"
               THEN h ELSE 0

\* the integer pairs of the edge rows among lines from..Len(lines), in order
RECURSIVE EdgeRows(_, _)
EdgeRows(lines, from) ==
    IF from > Len(lines) THEN <<>>
    ELSE (IF ~IsComment(lines[from]) /\ IsEdgeRow(lines[from])
          THEN <<(<<ReplaceCommas(lines[from])[1].v,
                    ReplaceCommas(lines[from])[2].v>>)>>
          ELSE <<>>) \o EdgeRows(lines, from + 1)

\* C28: for every file content, read_header_and_edges yields exactly the
\* (u, v) integer pairs of the lines after the header that have at least two
\* tokens parsing as integers, commas being separators; blank lines, comment
\* lines, short rows and non-integer rows are skipped, duplicates and
\* self-loops are kept, and no malformed row raises.
C28_EdgesAfterHeader ==
    /\ pc # "raised"
    /\ pc = "done" => ret.edges = EdgeRows(arg, HeaderLine(arg) + 1)


\* the description without its leading and trailing spaces
RECURSIVE Trimmed(_)
Trimmed(d) ==
    IF d = <<>> THEN <<>>
    ELSE IF d[1] = " " THEN Trimmed(Tail(d))
    ELSE IF d[Len(d)] = " " THEN Trimmed(SubSeq(d, 1, Len(d) - 1))
    ELSE d

\* the lines of the file that are not comments: the header, then the edges
DataLines(file) == SelectSeq(file, LAMBDA line : line[1] # "#")

\* the header's edge count is the number of edge lines written
HeaderCountsEdgeLines(file) ==
    /\ DataLines(file) # <<>>
    /\ DataLines(file)[1] = str(arg.vertices) \o <<" ">>
                               \o str(Len(DataLines(file)) - 1) \o <<"\n">>
    /\ Len(DataLines(file)) - 1 = Len(arg.edges)

\* C29 as stated: read_graph of the file written by write_graph(file, n,
\* edges, d) returns (n, edges in the same order, d), for every single-line
\* description d, and the header's edge count is the number of edge lines.
C29_RoundTripAsClaimed ==
    pc = "done" =>
        /\ ret.value = [t |-> "tuple", n |-> arg.vertices, edges |-> arg.edges,
                        description |-> arg.description]
        /\ HeaderCountsEdgeLines(ret.file)

\* C29: read_graph of the file written by write_graph(file, n, edges, d)
\* returns (n, edges in the same order, d without its leading and trailing
\* whitespace), so d itself when it has none, and the header's edge count
\* is the number of edge lines written.
C29_RoundTrip ==
    /\ pc = "written" => HeaderCountsEdgeLines(ret.file)
    /\ pc = "done" =>
          /\ ret.value = [t |-> "tuple", n |-> arg.vertices,
                          edges |-> arg.edges,
                          description |-> Trimmed(arg.description)]
          /\ HeaderCountsEdgeLines(ret.file)

\* a graph of 12 vertices and two edges with a two-digit vertex, written
\* with the description " x", has been read back with the description "x"
C29_Witness ==
    /\ pc = "done" /\ arg.vertices = 12 /\ arg.description = <<" ", "x">>
    /\ arg.edges = <<(<<0, 10>>), (<<10, 1>>)>>
    /\ ret.value.edges = arg.edges /\ ret.value.description = <<"x">>


\* the vertices joined to a vertex of S by a path of the graph
RECURSIVE Reachable(_, _)
Reachable(S, edges) ==
    LET T == S \cup {edges[i][2] : i \in {j \in DOMAIN edges : edges[j][1] \in S}}
                \cup {edges[i][1] : i \in {j \in DOMAIN edges : edges[j][2] \in S}}
    IN IF T = S THEN S ELSE Reachable(T, edges)

\* the connected components of the graph, as sets of vertices
Components(nn, edges) == {Reachable({v}, edges) : v \in 0..(nn - 1)}

\* C30: for every graph with n > 0 vertices and edges between vertices
\* 0..n-1, get_graph_properties reports is_connected true exactly when the
\* graph is connected, and num_components equal to the number of connected
\* components of the graph.
C30_Connectivity ==
    pc = "done" =>
        /\ ret.is_connected = (Cardinality(Components(arg.n, arg.edges)) = 1)
        /\ ret.num_components = Cardinality(Components(arg.n, arg.edges))

=============================================================================
